---------------------------- MODULE Spec2Model ----------------------------
(***************************************************************************)
(* A state-machine model of the particle image viewer:                     *)
(*   ParticleViewer  (src/unnamed/part_001, lines 117-1017)                *)
(*   SimpleLightbox  (src/src/lib/particle-viewer/SimpleLightbox.ts)       *)
(*                                                                         *)
(* The browser runs the viewer single-threaded: every public call, every   *)
(* texture-load callback and every animation-frame callback runs to        *)
(* completion, so each is one action.  The asynchronous boundaries are the *)
(* dynamic import of three.js (loadThree), TextureLoader.load and          *)
(* requestAnimationFrame; their callbacks are kept in the variables        *)
(* awaiting, loads, frames and renderFrames until an action runs them.     *)
(*                                                                         *)
(* Wall-clock time is quantised: a stage's linear progress elapsed/duration*)
(* is p/Ticks for p in 0..Ticks, and a frame callback observes any later   *)
(* tick than the previous frame of its chain.                              *)
(*                                                                         *)
(* The blurred background layer (updateBackground, .particle-bg elements), *)
(* the camera and the per-particle buffers are left out: they hold no GPU  *)
(* object that outlives a call and no control state.                       *)
(***************************************************************************)
EXTENDS Integers, Sequences, FiniteSets, TLC

(* ------------------------------ bounds --------------------------------- *)
\* texture loads (open or navigation) issued in one behaviour
MaxLoads == 3
\* images matched by the image selector
MaxImages == 2
\* ticks of quantised progress per animated stage
Ticks == 3
\* viewers constructed, one after the other, on the same page
MaxInstances == 3
\* images on the page of a gallery larger than the pagination window
MaxGalleryImages == 12

(* ------------------------- program constants --------------------------- *)
\* defaultConfig.openDuration, defaultConfig.closeDuration (ms)
DefaultOpenDuration == 2000
DefaultCloseDuration == 1200
\* defaultConfig.crossfadeStart = 0.2 = CrossfadeNum / CrossfadeDen
CrossfadeNum == 1
CrossfadeDen == 5
\* maxVisibleDots
maxVisibleDots == 5

\* opacity 1.0 and uniform value 1.0 in the model's integer units
OpOne == (CrossfadeDen - CrossfadeNum) * Ticks
UOne == Ticks * Ticks * Ticks * Ticks

VARIABLES
    \* configuration and page, fixed after construction
    images,               \* this.images.length
    reducedMotion,        \* prefersReducedMotion()
    openDuration,         \* this.config.openDuration
    closeDuration,        \* this.config.closeDuration
    \* ParticleViewer fields
    three,                \* this.THREE / this.threeLoading: "none" | "loading" | "loaded"
    awaiting,             \* open() calls suspended at `await this.loadThree()`
    scene,                \* this.scene !== null
    renderer,             \* this.renderer !== null (a live WebGLRenderer)
    currentPoints,        \* session id, 0 = null
    currentMesh,          \* session id, 0 = null
    isAnimating,
    animationId,          \* "null" | "set"
    renderId,             \* this.renderId !== null
    currentIndex,
    paginationStartIndex,
    \* DOM
    containerVisible,     \* container.classList.contains('visible')
    captionVisible,       \* captionElement.classList.contains('visible')
    captionText,          \* captionElement.innerText (the alt text of item i is i)
    bodyOverflow,         \* document.body.style.overflow: "" | "hidden"
    focus,                \* document.activeElement
    listeners,            \* event listeners bound on the page: <<target, event, instance>>
    \* the environment: loader, GPU, frame scheduler
    loads,                \* TextureLoader.load calls in flight
    nextLoad,             \* id of the next texture
    tex,                  \* texture id -> "none" | "pending" | "live" | "disposed" | "failed"
    texDisposals,         \* texture id -> number of dispose() calls
    sess,                 \* session id -> geometry, materials, Points and Mesh of one open
    sceneChildren,        \* objects added to this.scene: <<"points" | "mesh", session id>>
    frames,               \* requestAnimationFrame callbacks of tweens/dispersion/reassembly
    renderFrames,         \* requestAnimationFrame callbacks of the render loop
    \* the page shared by successive viewer instances
    dom,                  \* which control elements exist, and what constructors changed
    instances,            \* the viewers constructed so far: kind and status
    invoked,              \* the instances whose handlers the last user event ran
    \* history
    destroyed,            \* destroy() has been called
    last,                 \* the most recent accepted public call: its name, its
                          \* argument, whether work was in flight and currentIndex
                          \* when it was made
    orderly,              \* every public call so far was issued with nothing in flight
    \* the vertex shader
    particle              \* one vertex of the Points: its attributes and the uniforms

config == <<images, reducedMotion, openDuration, closeDuration>>

vars == <<images, reducedMotion, openDuration, closeDuration, three, awaiting,
          scene, renderer, currentPoints, currentMesh, isAnimating, animationId,
          renderId, currentIndex, paginationStartIndex, containerVisible,
          captionVisible, captionText, bodyOverflow, focus, listeners, loads,
          nextLoad, tex, texDisposals, sess, sceneChildren, frames,
          renderFrames, dom, instances, invoked, destroyed, last, orderly,
          particle>>

(* ------------------------------ helpers -------------------------------- *)
LoadIds == 1..MaxLoads

NoText == 0 - 2
NoFocus == <<"none", 0>>
CloseButtonFocus == <<"closeButton", 0>>
ImageFocus(i) == <<"image", i>>

\* no vertex is under observation
NoParticle == <<>>

Min(a, b) == IF a < b THEN a ELSE b
Max(a, b) == IF a > b THEN a ELSE b

\* The mutable state as one record, so that a method is a function on it.
Cur ==
    [three |-> three, awaiting |-> awaiting, scene |-> scene, renderer |-> renderer,
     currentPoints |-> currentPoints, currentMesh |-> currentMesh,
     isAnimating |-> isAnimating, animationId |-> animationId, renderId |-> renderId,
     currentIndex |-> currentIndex, paginationStartIndex |-> paginationStartIndex,
     containerVisible |-> containerVisible, captionVisible |-> captionVisible,
     captionText |-> captionText, bodyOverflow |-> bodyOverflow, focus |-> focus,
     listeners |-> listeners, loads |-> loads, nextLoad |-> nextLoad, tex |-> tex,
     texDisposals |-> texDisposals, sess |-> sess, sceneChildren |-> sceneChildren,
     frames |-> frames, renderFrames |-> renderFrames, dom |-> dom,
     instances |-> instances, destroyed |-> destroyed]

\* the assignment of a method's result to the viewer's fields
CommitViewer(s) ==
    /\ three' = s.three
    /\ awaiting' = s.awaiting
    /\ scene' = s.scene
    /\ renderer' = s.renderer
    /\ currentPoints' = s.currentPoints
    /\ currentMesh' = s.currentMesh
    /\ isAnimating' = s.isAnimating
    /\ animationId' = s.animationId
    /\ renderId' = s.renderId
    /\ currentIndex' = s.currentIndex
    /\ paginationStartIndex' = s.paginationStartIndex
    /\ containerVisible' = s.containerVisible
    /\ captionVisible' = s.captionVisible
    /\ captionText' = s.captionText
    /\ bodyOverflow' = s.bodyOverflow
    /\ focus' = s.focus
    /\ listeners' = s.listeners
    /\ loads' = s.loads
    /\ nextLoad' = s.nextLoad
    /\ tex' = s.tex
    /\ texDisposals' = s.texDisposals
    /\ sess' = s.sess
    /\ sceneChildren' = s.sceneChildren
    /\ frames' = s.frames
    /\ renderFrames' = s.renderFrames
    /\ dom' = s.dom
    /\ instances' = s.instances
    /\ destroyed' = s.destroyed

Commit(s) == CommitViewer(s) /\ UNCHANGED <<config, particle>>

\* Work in flight: a suspended open(), a texture load, or a tween, dispersion
\* or reassembly frame (the render loop does not count).
Busy == awaiting # <<>> \/ loads # {} \/ frames # {}

\* A public call that changes the state records itself in the history
\* variables; a call that is rejected leaves no trace.
\* the argument recorded for a call that takes none
NoArg == 0 - 2

CalledWith(op, arg, s) ==
    IF s = Cur THEN UNCHANGED <<last, orderly>>
    ELSE /\ last' = [op |-> op, busy |-> Busy, index |-> currentIndex, arg |-> arg]
         /\ orderly' = (orderly /\ ~Busy)

Called(op, s) == CalledWith(op, NoArg, s)

Callback == UNCHANGED <<last, orderly>>


(* ----------------------- GPU objects and sessions ---------------------- *)
\* The objects one texture-load callback of open() allocates (lines 454-543):
\* a PlaneGeometry, a ShaderMaterial with its uniforms (the Points), and a
\* MeshBasicMaterial (the Mesh).  A session is named by the texture it was
\* created from.
NoSess ==
    [geometry |-> "none", material |-> "none", meshMaterial |-> "none",
     pointsVisible |-> FALSE, meshVisible |-> FALSE, meshOpacity |-> 0, map |-> 0,
     uTexture |-> 0, uTextureNext |-> 0, uTextureMix |-> 0, uProgress |-> 0,
     uOpacity |-> 0, uMode |-> 0, uDispersion |-> 0]

NewSess(t) ==
    [geometry |-> "live", material |-> "live", meshMaterial |-> "live",
     pointsVisible |-> TRUE, meshVisible |-> FALSE, meshOpacity |-> 0, map |-> t,
     uTexture |-> t, uTextureNext |-> t, uTextureMix |-> 0, uProgress |-> 0,
     uOpacity |-> OpOne, uMode |-> 0, uDispersion |-> 0]

DisposedSess ==
    [NoSess EXCEPT !.geometry = "disposed", !.material = "disposed",
                   !.meshMaterial = "disposed"]

\* The values of a fully disposed session are no longer observable.
Norm(r) ==
    IF r.geometry = "disposed" /\ r.material = "disposed" /\ r.meshMaterial = "disposed"
    THEN DisposedSess ELSE r

\* Writes through a Points' ShaderMaterial / a Mesh's MeshBasicMaterial.
PointsLive(s, id) == id # 0 /\ s.sess[id].material = "live"
MeshLive(s, id) == id # 0 /\ s.sess[id].meshMaterial = "live"

SetProgress(s, id, v) ==
    IF PointsLive(s, id) THEN [s EXCEPT !.sess[id].uProgress = v] ELSE s
SetOpacity(s, id, v) ==
    IF PointsLive(s, id) THEN [s EXCEPT !.sess[id].uOpacity = v] ELSE s
SetPointsVisible(s, id, b) ==
    IF PointsLive(s, id) THEN [s EXCEPT !.sess[id].pointsVisible = b] ELSE s
SetMesh(s, id, visible, opacity) ==
    IF MeshLive(s, id)
    THEN [s EXCEPT !.sess[id].meshVisible = visible, !.sess[id].meshOpacity = opacity]
    ELSE s
SetMeshVisible(s, id, visible) ==
    IF MeshLive(s, id) THEN [s EXCEPT !.sess[id].meshVisible = visible] ELSE s

\* texture.dispose()
DisposeTexture(s, t) ==
    [s EXCEPT !.tex[t] = "disposed", !.texDisposals[t] = @ + 1]

(* ------------------------- the frame scheduler ------------------------- *)
\* A pending callback of a tween, dispersion or reassembly chain.  tracked
\* says that this.animationId holds this request's id.
Frame(kind, p, sid, target, start, t, item) ==
    [kind |-> kind, tracked |-> FALSE, p |-> p, sid |-> sid, target |-> target,
     start |-> start, tex |-> t, item |-> item]

\* this.animationId = requestAnimationFrame(f)
requestAnimationFrame(s, f) ==
    [s EXCEPT !.frames = {[g EXCEPT !.tracked = FALSE] : g \in @}
                            \cup {[f EXCEPT !.tracked = TRUE]},
              !.animationId = "set"]

\* cancelAnimationFrame(this.animationId): a request that has already run is
\* no longer pending and the call does nothing.
cancelAnimationFrame(s) ==
    [s EXCEPT !.frames = {g \in @ : ~g.tracked}]

(* ------------------------------ easing --------------------------------- *)
\* 1 - (1 - p)^4 at p/Ticks, in units of 1/UOne
EaseOutQuart(p) == UOne - (Ticks - p) * (Ticks - p) * (Ticks - p) * (Ticks - p)
\* p*p*(3 - 2p) at p/Ticks, in units of 1/UOne
Smoothstep(p) == p * p * (3 * Ticks - 2 * p) * Ticks
\* startValue + (target - startValue) * easedProgress
Lerp(start, target, p) == start + ((target * UOne - start) * EaseOutQuart(p)) \div UOne
\* progress > this.config.crossfadeStart
PastCrossfadeStart(p) == p * CrossfadeDen > CrossfadeNum * Ticks
\* (progress - crossfadeStart) / (1 - crossfadeStart), in units of 1/OpOne
FadeProgress(p) == p * CrossfadeDen - CrossfadeNum * Ticks
\* progress > 0.6
PastCloseHide(p) == 5 * p > 3 * Ticks

(* --------------------------- cleanupScene ------------------------------ *)
\* A variant of cleanupScene that disposes both texture slots without
\* comparing them.
cleanupSceneDisposingBoth(s) ==
    LET s1 == IF s.animationId # "null" THEN cancelAnimationFrame(s) ELSE s
        s2 == [s1 EXCEPT !.isAnimating = FALSE]
    IN  IF s2.currentPoints # 0 /\ s2.scene
        THEN LET id == s2.currentPoints
                 texture == s2.sess[id].uTexture
                 textureNext == s2.sess[id].uTextureNext
                 s3 == [s2 EXCEPT !.sceneChildren = @ \ {<<"points", id>>},
                                  !.sess[id].material = "disposed",
                                  !.currentPoints = 0]
                 s4 == IF s3.currentMesh # 0
                       THEN [s3 EXCEPT !.sceneChildren = @ \ {<<"mesh", s3.currentMesh>>},
                                       !.sess[s3.currentMesh].meshMaterial = "disposed",
                                       !.currentMesh = 0]
                       ELSE s3
                 s5 == [s4 EXCEPT !.sess[id].geometry = "disposed"]
                 s6 == DisposeTexture(s5, texture)
                 s7 == DisposeTexture(s6, textureNext)
             IN  [s7 EXCEPT !.sess = [i \in DOMAIN @ |-> Norm(@[i])]]
        ELSE s2

\* ParticleViewer.cleanupScene (lines 872-899)
cleanupScene(s) ==
    LET s1 == IF s.animationId # "null" THEN cancelAnimationFrame(s) ELSE s
        s2 == [s1 EXCEPT !.isAnimating = FALSE]
    IN  IF s2.currentPoints # 0 /\ s2.scene
        THEN LET id == s2.currentPoints
                 texture == s2.sess[id].uTexture
                 textureNext == s2.sess[id].uTextureNext
                 \* scene.remove(points); material.dispose(); currentPoints = null
                 s3 == [s2 EXCEPT !.sceneChildren = @ \ {<<"points", id>>},
                                  !.sess[id].material = "disposed",
                                  !.currentPoints = 0]
                 \* scene.remove(mesh); mesh.material.dispose(); currentMesh = null
                 s4 == IF s3.currentMesh # 0
                       THEN [s3 EXCEPT !.sceneChildren = @ \ {<<"mesh", s3.currentMesh>>},
                                       !.sess[s3.currentMesh].meshMaterial = "disposed",
                                       !.currentMesh = 0]
                       ELSE s3
                 \* geometry.dispose()
                 s5 == [s4 EXCEPT !.sess[id].geometry = "disposed"]
                 s6 == DisposeTexture(s5, texture)
                 s7 == IF textureNext # texture THEN DisposeTexture(s6, textureNext) ELSE s6
             IN  [s7 EXCEPT !.sess = [i \in DOMAIN @ |-> Norm(@[i])]]
        ELSE s2

(* --------------------------- the render loop --------------------------- *)
\* the number of renderer.render calls one run of animate makes: none on the
\* early return (lines 902-905), one when renderer and scene exist (lines 910-912)
drawCalls(s) ==
    IF ~s.containerVisible /\ ~s.isAnimating THEN 0
    ELSE IF s.renderer /\ s.scene THEN 1 ELSE 0

\* animate without its early return: the loop re-requests itself every frame
animateUnconditional(s) ==
    [s EXCEPT !.renderId = TRUE, !.renderFrames = @ + 1]

\* ParticleViewer.animate (lines 901-914)
animate(s) ==
    IF ~s.containerVisible /\ ~s.isAnimating
    THEN [s EXCEPT !.renderId = FALSE]
    ELSE [s EXCEPT !.renderId = TRUE, !.renderFrames = @ + 1]

(* ------------------------------- close --------------------------------- *)
\* onAnimationComplete, the closure close() hands to tweenProgress (lines 575-586)
onAnimationComplete(s) ==
    LET s1 == [s EXCEPT !.containerVisible = FALSE, !.captionVisible = FALSE,
                        !.bodyOverflow = ""]
        s2 == cleanupScene(s1)
    IN  IF s2.currentIndex \in 0..(images - 1)
        THEN [s2 EXCEPT !.focus = ImageFocus(s2.currentIndex)]
        ELSE s2

(* ---------------------------- tweenProgress ---------------------------- *)
\* A variant of the closure `frame` that releases the session as soon as the
\* container is hidden, at progress 0.6, instead of in the last frame.
frameReleasingEarly(s, f, p) ==
    LET s1 == SetProgress(s, f.sid, Lerp(f.start, f.target, p))
        s2 == IF f.target = 0 /\ PastCloseHide(p) /\ s1.containerVisible
              THEN onAnimationComplete(s1)
              ELSE s1
        s3 == IF f.target = 1 /\ s2.currentMesh # 0
              THEN IF PastCrossfadeStart(p)
                   THEN SetOpacity(SetMesh(s2, s2.currentMesh, TRUE, FadeProgress(p)),
                                   f.sid, OpOne - FadeProgress(p))
                   ELSE SetOpacity(SetMesh(s2, s2.currentMesh, FALSE, 0), f.sid, OpOne)
              ELSE s2
    IN  IF p < Ticks
        THEN requestAnimationFrame(s3, [f EXCEPT !.p = p])
        ELSE LET s4 == IF f.target = 1
                       THEN LET a == IF s3.currentPoints # 0
                                     THEN SetOpacity(
                                              SetPointsVisible(s3, s3.currentPoints, FALSE),
                                              f.sid, 0)
                                     ELSE s3
                            IN  SetMesh(a, a.currentMesh, TRUE, OpOne)
                       ELSE s3
                 s5 == [s4 EXCEPT !.isAnimating = FALSE]
             IN  IF f.target = 0 THEN onAnimationComplete(s5) ELSE s5

\* The closure `frame` of tweenProgress (lines 825-867) observing linear
\* progress p/Ticks.  f.sid is the session whose material the closure
\* captured; target 0 carries close()'s onComplete, target 1 carries none.
frame(s, f, p) ==
    LET s1 == SetProgress(s, f.sid, Lerp(f.start, f.target, p))
        s2 == IF f.target = 0 /\ PastCloseHide(p) /\ s1.containerVisible
              THEN [s1 EXCEPT !.containerVisible = FALSE, !.captionVisible = FALSE]
              ELSE s1
        s3 == IF f.target = 1 /\ s2.currentMesh # 0
              THEN IF PastCrossfadeStart(p)
                   THEN SetOpacity(SetMesh(s2, s2.currentMesh, TRUE, FadeProgress(p)),
                                   f.sid, OpOne - FadeProgress(p))
                   ELSE SetOpacity(SetMesh(s2, s2.currentMesh, FALSE, 0), f.sid, OpOne)
              ELSE s2
    IN  IF p < Ticks
        THEN requestAnimationFrame(s3, [f EXCEPT !.p = p])
        ELSE LET s4 == IF f.target = 1
                       THEN LET a == IF s3.currentPoints # 0
                                     THEN SetOpacity(
                                              SetPointsVisible(s3, s3.currentPoints, FALSE),
                                              f.sid, 0)
                                     ELSE s3
                            IN  SetMesh(a, a.currentMesh, TRUE, OpOne)
                       ELSE s3
                 s5 == [s4 EXCEPT !.isAnimating = FALSE]
             IN  IF f.target = 0 THEN onAnimationComplete(s5) ELSE s5

\* A variant of tweenProgress whose zero-duration branch shows the mesh but
\* leaves the points as they were.
tweenProgressKeepingPoints(s, target, duration) ==
    IF s.currentPoints = 0 THEN s
    ELSE LET effectiveDuration == IF reducedMotion THEN 0 ELSE duration
             id == s.currentPoints
         IN  IF effectiveDuration <= 0
             THEN LET s1 == SetProgress(s, id, target * UOne)
                      s2 == IF target = 1
                            THEN SetMesh(s1, s1.currentMesh, TRUE, OpOne)
                            ELSE [s1 EXCEPT !.containerVisible = FALSE,
                                            !.captionVisible = FALSE]
                  IN  IF target = 0 THEN onAnimationComplete(s2) ELSE s2
             ELSE LET s1 == [s EXCEPT !.isAnimating = TRUE]
                      f == Frame("tween", 0, id, target, s.sess[id].uProgress, 0, 0)
                      s2 == IF s1.animationId # "null" THEN cancelAnimationFrame(s1) ELSE s1
                  IN  frame(s2, f, 0)

\* A variant of tweenProgress that treats a zero duration as nothing to do:
\* it sets uProgress and returns without the side effects or onComplete.
tweenProgressSkippingEffects(s, target, duration) ==
    IF s.currentPoints = 0 THEN s
    ELSE LET effectiveDuration == IF reducedMotion THEN 0 ELSE duration
             id == s.currentPoints
         IN  IF effectiveDuration <= 0
             THEN SetProgress(s, id, target * UOne)
             ELSE LET s1 == [s EXCEPT !.isAnimating = TRUE]
                      f == Frame("tween", 0, id, target, s.sess[id].uProgress, 0, 0)
                      s2 == IF s1.animationId # "null" THEN cancelAnimationFrame(s1) ELSE s1
                  IN  frame(s2, f, 0)

\* ParticleViewer.tweenProgress (lines 790-870)
tweenProgress(s, target, duration) ==
    IF s.currentPoints = 0 THEN s
    ELSE LET effectiveDuration == IF reducedMotion THEN 0 ELSE duration
             id == s.currentPoints
         IN  IF effectiveDuration <= 0
             THEN LET s1 == SetProgress(s, id, target * UOne)
                      s2 == IF target = 1
                            THEN SetOpacity(
                                     SetPointsVisible(
                                         SetMesh(s1, s1.currentMesh, TRUE, OpOne),
                                         id, FALSE),
                                     id, 0)
                            ELSE [s1 EXCEPT !.containerVisible = FALSE,
                                            !.captionVisible = FALSE]
                  IN  IF target = 0 THEN onAnimationComplete(s2) ELSE s2
             ELSE LET s1 == [s EXCEPT !.isAnimating = TRUE]
                      f == Frame("tween", 0, id, target, s.sess[id].uProgress, 0, 0)
                      s2 == IF s1.animationId # "null" THEN cancelAnimationFrame(s1) ELSE s1
                  IN  frame(s2, f, 0)

\* ParticleViewer.close (lines 556-589)
close(s) ==
    IF s.isAnimating \/ s.currentPoints = 0 THEN s
    ELSE LET id == s.currentPoints
             s1 == SetMesh(s, s.currentMesh, FALSE, 0)
             s2 == IF PointsLive(s1, id)
                   THEN [s1 EXCEPT !.sess[id].pointsVisible = TRUE,
                                   !.sess[id].uOpacity = OpOne,
                                   !.sess[id].uMode = 1]
                   ELSE s1
         IN  tweenProgress(s2, 0, closeDuration)


(* ----------------------------- pagination ------------------------------ *)
\* The window start computed by updatePagination (lines 403-413); the dots
\* exist only when there is more than one image (constructor, line 200).
updatePagination(s) ==
    IF images > 1 /\ images > maxVisibleDots
    THEN LET minStart == Max(0, s.currentIndex - maxVisibleDots + 1)
             maxStart == Min(s.currentIndex, images - maxVisibleDots)
         IN  IF s.paginationStartIndex < minStart
             THEN [s EXCEPT !.paginationStartIndex = minStart]
             ELSE IF s.paginationStartIndex > maxStart
                  THEN [s EXCEPT !.paginationStartIndex = maxStart]
                  ELSE s
    ELSE s

\* The dots that updatePaginationVisibility (lines 375-393) leaves displayed.
visibleDots(s) ==
    LET total == images
        endIndex == Min(s.paginationStartIndex + maxVisibleDots, total)
        startIndex == IF endIndex - s.paginationStartIndex < maxVisibleDots
                         /\ total >= maxVisibleDots
                      THEN total - maxVisibleDots
                      ELSE s.paginationStartIndex
    IN  {i \in 0..(total - 1) : i >= startIndex /\ i < endIndex}

(* ------------------------------- loader -------------------------------- *)
\* new THREE.TextureLoader().load(src, onLoad[, onProgress, onError]).  Past
\* the bound on loads the call is marked by an id that no action commits.
Load(s, kind, item) ==
    IF s.nextLoad > MaxLoads
    THEN [s EXCEPT !.nextLoad = MaxLoads + 2]
    ELSE [s EXCEPT !.loads = @ \cup {[id |-> s.nextLoad, kind |-> kind, item |-> item]},
                   !.tex[s.nextLoad] = "pending",
                   !.nextLoad = @ + 1]

WithinBounds(s) == s.nextLoad <= MaxLoads + 1

(* -------------------------------- open --------------------------------- *)
\* ParticleViewer.initThreeJS (lines 215-231)
initThreeJS(s) ==
    IF s.three # "loaded" \/ s.scene THEN s
    ELSE [s EXCEPT !.scene = TRUE, !.renderer = TRUE]

\* ParticleViewer.open after `await this.loadThree()` (lines 426-441)
openResume(s, item) ==
    LET s1 == initThreeJS(s)
    IN  IF ~s1.scene \/ ~s1.renderer THEN s1
        ELSE LET s2 == updatePagination([s1 EXCEPT !.currentIndex = item])
                 s3 == [s2 EXCEPT !.captionText = item, !.captionVisible = TRUE]
             IN  Load(s3, "open", item)

\* ParticleViewer.open up to the await (lines 418-425); with three.js already
\* loaded the continuation runs in the same task.
open(s, item) ==
    IF s.isAnimating THEN s
    ELSE LET s1 == IF s.currentPoints # 0 THEN cleanupScene(s) ELSE s
         IN  IF s1.three = "loaded"
             THEN openResume(s1, item)
             ELSE [s1 EXCEPT !.three = "loading", !.awaiting = Append(@, item)]

\* The import of three.js resolves (loadThree, lines 207-210): THREE is set
\* and the suspended open() calls continue in the order they were made.
RECURSIVE resumeAll(_, _)
resumeAll(s, q) ==
    IF q = <<>> THEN s ELSE resumeAll(openResume(s, Head(q)), Tail(q))

threeLoaded(s) ==
    resumeAll([s EXCEPT !.three = "loaded", !.awaiting = <<>>], s.awaiting)

\* The onLoad callback that open() gives the TextureLoader (lines 441-553)
openTextureLoaded(s, l) ==
    LET id == l.id
        s1 == [s EXCEPT !.loads = @ \ {l}, !.tex[id] = "live",
                        !.sess[id] = NewSess(id),
                        !.currentPoints = id,
                        !.currentMesh = id,
                        !.sceneChildren = @ \cup {<<"points", id>>, <<"mesh", id>>},
                        !.containerVisible = TRUE,
                        !.bodyOverflow = "hidden",
                        !.focus = CloseButtonFocus]
        s2 == tweenProgress(s1, 1, openDuration)
    IN  IF ~s2.renderId THEN animate(s2) ELSE s2

(* ----------------------------- navigation ------------------------------ *)
\* ParticleViewer.swapImageContent (lines 667-706); the temporary
\* PlaneGeometry is disposed before the method returns.
swapImageContent(s, item, t) ==
    IF s.currentPoints = 0 \/ s.currentMesh = 0 \/ s.three # "loaded" THEN s
    ELSE LET s1 == updatePagination([s EXCEPT !.currentIndex = item])
             s2 == [s1 EXCEPT !.captionText = item, !.captionVisible = TRUE]
             s3 == IF PointsLive(s2, s2.currentPoints)
                   THEN [s2 EXCEPT !.sess[s2.currentPoints].uTexture = t,
                                   !.sess[s2.currentPoints].uTextureNext = t,
                                   !.sess[s2.currentPoints].uTextureMix = 0]
                   ELSE s2
         IN  IF MeshLive(s3, s3.currentMesh)
             THEN [s3 EXCEPT !.sess[s3.currentMesh].map = t]
             ELSE s3

\* The closure assembleFrame of animateReassembly (lines 712-740)
assembleFrame(s, f, p) ==
    LET cp == s.currentPoints
        s1 == IF PointsLive(s, cp)
              THEN [s EXCEPT !.sess[cp].uDispersion = UOne - EaseOutQuart(p)]
              ELSE s
        \* progress > 0.5 && currentMesh && currentPoints
        s2 == IF 2 * p > Ticks /\ s1.currentMesh # 0 /\ cp # 0
              THEN LET fade == (2 * p - Ticks) * (CrossfadeDen - CrossfadeNum)
                   IN  SetOpacity(SetMesh(s1, s1.currentMesh, TRUE, fade), cp, OpOne - fade)
              ELSE s1
    IN  IF p < Ticks
        THEN requestAnimationFrame(s2, [f EXCEPT !.p = p])
        ELSE SetPointsVisible(
                 SetMesh([s2 EXCEPT !.isAnimating = FALSE], s2.currentMesh, TRUE, OpOne),
                 cp, FALSE)

\* ParticleViewer.animateReassembly (lines 708-742)
animateReassembly(s, f) ==
    requestAnimationFrame(s, Frame("assemble", 0, 0, 0, 0, f.tex, f.item))

\* The closure disperseFrame of transitionTo (lines 643-659)
disperseFrame(s, f, p) ==
    LET cp == s.currentPoints
        s1 == IF PointsLive(s, cp)
              THEN [s EXCEPT !.sess[cp].uDispersion = Smoothstep(p),
                             !.sess[cp].uTextureMix = Smoothstep(p)]
              ELSE s
    IN  IF p < Ticks
        THEN requestAnimationFrame(s1, [f EXCEPT !.p = p])
        ELSE animateReassembly(swapImageContent(s1, f.item, f.tex), f)

\* A variant of the onLoad callback without the reduced-motion branch: the
\* dispersion stage is started whatever the user's preference.
navTextureLoadedAnimated(s, l) ==
    LET s1 == [s EXCEPT !.loads = @ \ {l}, !.tex[l.id] = "live"]
        cp == s1.currentPoints
        s2 == SetMeshVisible(s1, s1.currentMesh, FALSE)
        s3 == IF PointsLive(s2, cp)
              THEN [s2 EXCEPT !.sess[cp].pointsVisible = TRUE,
                              !.sess[cp].uOpacity = OpOne,
                              !.sess[cp].uTextureNext = l.id]
              ELSE s2
    IN  requestAnimationFrame(s3, Frame("disperse", 0, 0, 0, 0, l.id, l.item))

\* The onLoad callback that transitionTo gives the TextureLoader (lines 619-660)
navTextureLoaded(s, l) ==
    LET s1 == [s EXCEPT !.loads = @ \ {l}, !.tex[l.id] = "live"]
    IN  IF reducedMotion
        THEN LET s2 == swapImageContent(s1, l.item, l.id)
                 s3 == SetMesh(s2, s2.currentMesh, TRUE, OpOne)
                 s4 == SetPointsVisible(s3, s3.currentPoints, FALSE)
             IN  [s4 EXCEPT !.isAnimating = FALSE]
        ELSE LET cp == s1.currentPoints
                 s2 == SetMeshVisible(s1, s1.currentMesh, FALSE)
                 s3 == IF PointsLive(s2, cp)
                       THEN [s2 EXCEPT !.sess[cp].pointsVisible = TRUE,
                                       !.sess[cp].uOpacity = OpOne,
                                       !.sess[cp].uTextureNext = l.id]
                       ELSE s2
             IN  requestAnimationFrame(s3, Frame("disperse", 0, 0, 0, 0, l.id, l.item))

\* A variant of the onError callback that also forgets the session it leaves
\* behind, without disposing it.
navTextureFailedForgetting(s, l) ==
    [s EXCEPT !.loads = @ \ {l}, !.tex[l.id] = "failed", !.isAnimating = FALSE,
              !.currentPoints = 0, !.currentMesh = 0]

\* A variant of the onError callback that only logs the error.
navTextureFailedSilently(s, l) ==
    [s EXCEPT !.loads = @ \ {l}, !.tex[l.id] = "failed"]

\* The onError callback that transitionTo gives the TextureLoader (lines 661-664)
navTextureFailed(s, l) ==
    [s EXCEPT !.loads = @ \ {l}, !.tex[l.id] = "failed", !.isAnimating = FALSE]

\* open() gives the TextureLoader no onError callback (line 441)
openTextureFailed(s, l) ==
    [s EXCEPT !.loads = @ \ {l}, !.tex[l.id] = "failed"]

\* A variant of transitionTo without the check for an open session (line 611).
transitionToWithoutSession(s, newIndex) ==
    IF s.isAnimating \/ s.three # "loaded" THEN s
    ELSE Load([s EXCEPT !.isAnimating = TRUE, !.captionVisible = FALSE],
              "nav", newIndex)

\* ParticleViewer.transitionTo (lines 603-665)
transitionTo(s, newIndex) ==
    IF s.isAnimating \/ s.three # "loaded" THEN s
    ELSE IF s.currentPoints = 0 \/ s.currentMesh = 0
         THEN [s EXCEPT !.isAnimating = FALSE]
         ELSE Load([s EXCEPT !.isAnimating = TRUE, !.captionVisible = FALSE],
                   "nav", newIndex)

\* A variant of next() that adds one to the index without wrapping.
nextWithoutWrap(s) ==
    IF s.isAnimating \/ images <= 1 THEN s
    ELSE transitionTo(s, s.currentIndex + 1)

\* ParticleViewer.next (lines 591-595)
next(s) ==
    IF s.isAnimating \/ images <= 1 THEN s
    ELSE transitionTo(s, (s.currentIndex + 1) % images)

\* ParticleViewer.prev (lines 597-601)
prev(s) ==
    IF s.isAnimating \/ images <= 1 THEN s
    ELSE transitionTo(s, (s.currentIndex - 1 + images) % images)

\* The click handler of pagination dot `index` (lines 351-356)
dotClick(s, index) ==
    IF s.currentIndex # index /\ ~s.isAnimating THEN transitionTo(s, index) ELSE s


(* ------------------------ event bindings, destroy ---------------------- *)
Listener(target, i, event, k) == <<<<target, i>>, event, k>>

\* the current instance: the one constructed last
Self(s) == Len(s.instances)

\* ParticleViewer.bindEvents, the images.forEach part (lines 234-244)
ImageHandlers(k) ==
    UNION {{Listener("image", i, "click", k), Listener("image", i, "mouseenter", k),
            Listener("image", i, "touchstart", k)} : i \in 0..(images - 1)}

\* ParticleViewer.bindEvents, from document.addEventListener on (lines 258-320)
BoundHandlers(k) ==
    {Listener("document", 0, "keydown", k), Listener("window", 0, "resize", k),
     Listener("container", 0, "touchstart", k), Listener("container", 0, "touchend", k)}

\* ParticleViewer.destroy, the removeEventListener part (lines 1000-1012)
removeListeners(s) ==
    [s EXCEPT !.listeners = (@ \ BoundHandlers(Self(s))) \ ImageHandlers(Self(s))]

\* ParticleViewer.destroy (lines 976-1016)
destroy(s) ==
    LET s1 == IF s.containerVisible
              THEN [s EXCEPT !.containerVisible = FALSE, !.bodyOverflow = ""]
              ELSE s
        s2 == IF s1.animationId # "null"
              THEN [cancelAnimationFrame(s1) EXCEPT !.animationId = "null"]
              ELSE s1
        s3 == IF s2.renderId
              THEN [s2 EXCEPT !.renderFrames = Max(0, @ - 1), !.renderId = FALSE]
              ELSE s2
        s4 == cleanupScene(s3)
        s5 == IF s4.renderer THEN [s4 EXCEPT !.renderer = FALSE] ELSE s4
        s6 == removeListeners(s5)
    IN  [s6 EXCEPT !.instances[Self(s)].status = "destroyed", !.destroyed = TRUE]


(* ----------------------------- constructors ---------------------------- *)
\* The page before any viewer exists, and the field initialisers of a new
\* ParticleViewer (lines 123-157).
FullDom ==
    [container |-> TRUE, closeButton |-> TRUE, prevButton |-> TRUE, nextButton |-> TRUE,
     prevHidden |-> FALSE, nextHidden |-> FALSE, paginationHidden |-> FALSE,
     appended |-> 0]

Blank(d) ==
    [three |-> "none", awaiting |-> <<>>, scene |-> FALSE, renderer |-> FALSE,
     currentPoints |-> 0, currentMesh |-> 0, isAnimating |-> FALSE,
     animationId |-> "null", renderId |-> FALSE, currentIndex |-> 0,
     paginationStartIndex |-> 0, containerVisible |-> FALSE, captionVisible |-> FALSE,
     captionText |-> NoText, bodyOverflow |-> "", focus |-> NoFocus,
     listeners |-> {}, loads |-> {}, nextLoad |-> 1,
     tex |-> [i \in LoadIds |-> "none"], texDisposals |-> [i \in LoadIds |-> 0],
     sess |-> [i \in 0..MaxLoads |-> NoSess], sceneChildren |-> {}, frames |-> {},
     renderFrames |-> 0, dom |-> d, instances |-> <<>>, destroyed |-> FALSE]

\* the fields of a new instance replace those of the previous one
NewFields(s) ==
    [s EXCEPT !.three = "none", !.awaiting = <<>>, !.scene = FALSE, !.renderer = FALSE,
              !.currentPoints = 0, !.currentMesh = 0, !.isAnimating = FALSE,
              !.animationId = "null", !.renderId = FALSE, !.currentIndex = 0,
              !.paginationStartIndex = 0, !.destroyed = FALSE]

\* A constructor in progress: the state so far and whether it is still running
\* (ok) or has thrown.
Run(c, present, effect) ==
    IF ~c.ok THEN c
    ELSE IF ~present THEN [c EXCEPT !.ok = FALSE]
         ELSE [c EXCEPT !.st = effect]

Bind(c, present, ls) == Run(c, present, [c.st EXCEPT !.listeners = @ \cup ls])

Finish(c, kind) ==
    [c.st EXCEPT !.instances =
        Append(@, [kind |-> kind, status |-> IF c.ok THEN "live" ELSE "threw"])]

\* the statements for a page with at most one image (lines 177-182)
HideNav(c) ==
    IF images > 1 THEN c
    ELSE LET c1 == Run(c, c.st.dom.prevButton, [c.st EXCEPT !.dom.prevHidden = TRUE])
             c2 == Run(c1, c1.st.dom.nextButton, [c1.st EXCEPT !.dom.nextHidden = TRUE])
         IN  Run(c2, TRUE, [c2.st EXCEPT !.dom.paginationHidden = TRUE])

\* ParticleViewer.bindEvents (lines 233-321)
bindEvents(c, k) ==
    LET d == c.st.dom
        c1 == Bind(c, TRUE, ImageHandlers(k))
        c2 == Bind(c1, d.closeButton, {Listener("closeButton", 0, "click", k)})
        c3 == Bind(c2, d.prevButton, {Listener("prevButton", 0, "click", k)})
        c4 == Bind(c3, d.nextButton, {Listener("nextButton", 0, "click", k)})
    IN  Bind(c4, TRUE, BoundHandlers(k))

\* ParticleViewer.constructor (lines 159-201)
constructor(s) ==
    LET k == Len(s.instances) + 1
        c0 == [st |-> NewFields(s), ok |-> s.dom.container]
    IN  Finish(bindEvents(HideNav(c0), k), "particle")

\* SimpleLightbox.bindEvents (SimpleLightbox.ts lines 70-147)
SimpleImageHandlers(k) == {Listener("image", i, "click", k) : i \in 0..(images - 1)}

SimpleBoundHandlers(k) ==
    {Listener("document", 0, "keydown", k),
     Listener("container", 0, "touchstart", k), Listener("container", 0, "touchend", k)}

simpleBindEvents(c, k) ==
    LET d == c.st.dom
        c1 == Bind(c, TRUE, SimpleImageHandlers(k))
        c2 == Bind(c1, d.closeButton, {Listener("closeButton", 0, "click", k)})
        c3 == Bind(c2, TRUE, {Listener("container", 0, "click", k)})
        c4 == Bind(c3, d.prevButton, {Listener("prevButton", 0, "click", k)})
        c5 == Bind(c4, d.nextButton, {Listener("nextButton", 0, "click", k)})
    IN  Bind(c5, TRUE, SimpleBoundHandlers(k))

\* SimpleLightbox.constructor (SimpleLightbox.ts lines 31-68)
simpleConstructor(s) ==
    LET k == Len(s.instances) + 1
        c0 == [st |-> NewFields(s), ok |-> s.dom.container]
        c1 == Run(c0, TRUE, [c0.st EXCEPT !.dom.appended = @ + 1])
    IN  Finish(simpleBindEvents(HideNav(c1), k), "simple")

\* SimpleLightbox.open (SimpleLightbox.ts lines 248-269); its updatePagination
\* (lines 221-242) is the same computation as ParticleViewer's.
simpleOpen(s, item) ==
    LET s1 == updatePagination([s EXCEPT !.currentIndex = item])
    IN  [s1 EXCEPT !.captionText = item, !.captionVisible = TRUE,
                   !.containerVisible = TRUE, !.bodyOverflow = "hidden",
                   !.focus = CloseButtonFocus]

\* SimpleLightbox.goTo (SimpleLightbox.ts lines 293-311)
simpleGoTo(s, index) ==
    LET s1 == updatePagination([s EXCEPT !.currentIndex = index])
    IN  [s1 EXCEPT !.captionText = index, !.captionVisible = TRUE]

\* SimpleLightbox.next (SimpleLightbox.ts lines 281-285)
simpleNext(s) ==
    IF images <= 1 THEN s ELSE simpleGoTo(s, (s.currentIndex + 1) % images)

\* SimpleLightbox.prev (SimpleLightbox.ts lines 287-291)
simplePrev(s) ==
    IF images <= 1 THEN s ELSE simpleGoTo(s, (s.currentIndex - 1 + images) % images)

\* The click handler of SimpleLightbox's pagination dot `index` (lines 177-182)
simpleDotClick(s, index) ==
    IF s.currentIndex # index THEN simpleGoTo(s, index) ELSE s

\* SimpleLightbox.close (SimpleLightbox.ts lines 271-279)
simpleClose(s) ==
    LET s1 == [s EXCEPT !.containerVisible = FALSE, !.captionVisible = FALSE,
                        !.bodyOverflow = ""]
    IN  IF s1.currentIndex \in 0..(images - 1)
        THEN [s1 EXCEPT !.focus = ImageFocus(s1.currentIndex)]
        ELSE s1

\* SimpleLightbox.destroy (SimpleLightbox.ts lines 313-334)
simpleDestroy(s) ==
    LET s1 == IF s.containerVisible THEN simpleClose(s) ELSE s
        s2 == [s1 EXCEPT !.listeners =
                  (@ \ SimpleBoundHandlers(Self(s))) \ SimpleImageHandlers(Self(s))]
        s3 == [s2 EXCEPT !.dom.appended = Max(0, @ - 1)]
    IN  [s3 EXCEPT !.instances[Self(s)].status = "destroyed", !.destroyed = TRUE]


(* ------------------------------- states -------------------------------- *)
InitFrom(s) ==
    /\ three = s.three
    /\ awaiting = s.awaiting
    /\ scene = s.scene
    /\ renderer = s.renderer
    /\ currentPoints = s.currentPoints
    /\ currentMesh = s.currentMesh
    /\ isAnimating = s.isAnimating
    /\ animationId = s.animationId
    /\ renderId = s.renderId
    /\ currentIndex = s.currentIndex
    /\ paginationStartIndex = s.paginationStartIndex
    /\ containerVisible = s.containerVisible
    /\ captionVisible = s.captionVisible
    /\ captionText = s.captionText
    /\ bodyOverflow = s.bodyOverflow
    /\ focus = s.focus
    /\ listeners = s.listeners
    /\ loads = s.loads
    /\ nextLoad = s.nextLoad
    /\ tex = s.tex
    /\ texDisposals = s.texDisposals
    /\ sess = s.sess
    /\ sceneChildren = s.sceneChildren
    /\ frames = s.frames
    /\ renderFrames = s.renderFrames
    /\ dom = s.dom
    /\ instances = s.instances
    /\ destroyed = s.destroyed

\* The configuration the constructor computes (lines 187-197): reduced motion
\* forces both durations to 0; a duration of 0 is also a valid user setting.
InitConfig ==
    /\ images \in 1..MaxImages
    /\ reducedMotion \in BOOLEAN
    /\ openDuration \in {0, DefaultOpenDuration}
    /\ closeDuration \in {0, DefaultCloseDuration}
    /\ reducedMotion => (openDuration = 0 /\ closeDuration = 0)

\* One ParticleViewer, constructed on a page that has every control element.
Init ==
    /\ InitConfig
    /\ InitFrom(constructor(Blank(FullDom)))
    /\ invoked = {}
    /\ last = [op |-> "constructor", busy |-> FALSE, index |-> 0, arg |-> NoArg]
    /\ orderly = TRUE
    /\ particle = NoParticle

\* the elements open() may be given: the registered images, and -1 for an
\* element that is not one of them (indexOf yields -1, line 430)
OpenItems == (0 - 1)..(images - 1)

Do(s) == WithinBounds(s) /\ Commit(s) /\ UNCHANGED invoked

Call(op, s) == Do(s) /\ Called(op, s)

CallWith(op, arg, s) == Do(s) /\ CalledWith(op, arg, s)

(* ------------------------------- actions ------------------------------- *)
\* mouseenter / touchstart on an image: () => this.loadThree()
Hover ==
    /\ three = "none"
    /\ \E i \in 0..(images - 1) :
           Listener("image", i, "mouseenter", Len(instances)) \in listeners
    /\ Do([Cur EXCEPT !.three = "loading"])
    /\ Callback

ThreeLoaded ==
    /\ three = "loading"
    /\ Do(threeLoaded(Cur))
    /\ Callback

OpenCall(item) ==
    /\ nextLoad + Len(awaiting) <= MaxLoads
    /\ CallWith("open", item, open(Cur, item))

TextureLoaded(l) ==
    /\ l \in loads
    /\ Do(IF l.kind = "open" THEN openTextureLoaded(Cur, l) ELSE navTextureLoaded(Cur, l))
    /\ Callback

TextureFailed(l) ==
    /\ l \in loads
    /\ Do(IF l.kind = "open" THEN openTextureFailed(Cur, l) ELSE navTextureFailed(Cur, l))
    /\ Callback

\* a pending frame callback runs, observing a later tick p
Fired(f) == [Cur EXCEPT !.frames = @ \ {f}]

TweenFrame(f, p) ==
    /\ f \in frames /\ f.kind = "tween" /\ p > f.p
    /\ Do(frame(Fired(f), f, p))
    /\ Callback

DisperseFrame(f, p) ==
    /\ f \in frames /\ f.kind = "disperse" /\ p > f.p
    /\ Do(disperseFrame(Fired(f), f, p))
    /\ Callback

AssembleFrame(f, p) ==
    /\ f \in frames /\ f.kind = "assemble" /\ p > f.p
    /\ Do(assembleFrame(Fired(f), f, p))
    /\ Callback

RenderFrame ==
    /\ renderFrames > 0
    /\ Do(animate([Cur EXCEPT !.renderFrames = @ - 1]))
    /\ Callback

CloseCall == Call("close", close(Cur))

NextCall == Call("next", next(Cur))

PrevCall == Call("prev", prev(Cur))

DotClick(i) ==
    /\ images > 1
    /\ CallWith("dot", i, dotClick(Cur, i))

\* boundTouchEnd (lines 303-319): a horizontal swipe past the threshold
Swipe(right) ==
    /\ Listener("container", 0, "touchend", Len(instances)) \in listeners
    /\ containerVisible
    /\ ~(images <= 1 \/ isAnimating)
    /\ IF right THEN Call("prev", prev(Cur)) ELSE Call("next", next(Cur))

\* boundKeydown (lines 258-286): Escape, ArrowLeft, ArrowRight
KeyDown(key) ==
    /\ Listener("document", 0, "keydown", Len(instances)) \in listeners
    /\ containerVisible
    /\ CASE key = "Escape" -> Call("close", close(Cur))
         [] key = "ArrowLeft" -> Call("prev", prev(Cur))
         [] key = "ArrowRight" -> Call("next", next(Cur))

Destroy == Call("destroy", destroy(Cur))

Next ==
    \/ Hover
    \/ ThreeLoaded
    \/ \E item \in OpenItems : OpenCall(item)
    \/ \E l \in loads : TextureLoaded(l)
    \/ \E l \in loads : TextureFailed(l)
    \/ \E f \in frames, p \in 1..Ticks : TweenFrame(f, p)
    \/ \E f \in frames, p \in 1..Ticks : DisperseFrame(f, p)
    \/ \E f \in frames, p \in 1..Ticks : AssembleFrame(f, p)
    \/ RenderFrame
    \/ CloseCall
    \/ NextCall
    \/ PrevCall
    \/ \E i \in 0..(images - 1) : DotClick(i)
    \/ \E right \in BOOLEAN : Swipe(right)
    \/ \E key \in {"Escape", "ArrowLeft", "ArrowRight"} : KeyDown(key)
    \/ Destroy

Spec == Init /\ [][Next]_vars

\* The browser runs what it has scheduled: a pending import resolves, a
\* pending texture load ends in onLoad or onError, and a requested frame of a
\* tween, dispersion or reassembly is called, unless it is cancelled first.
\* Each condition is the weak fairness WF_vars(A) of the callback A, with
\* ENABLED <<A>>_vars written as the state predicate it is equal to.
SpecLive ==
    /\ Init
    /\ [][Next]_vars
    /\ (<>[](three = "loading") => []<><<ThreeLoaded>>_vars)
    /\ (<>[](loads # {}) =>
            []<><<\E l \in loads : TextureLoaded(l) \/ TextureFailed(l)>>_vars)
    /\ (<>[](frames # {}) =>
            []<><<\E f \in frames, p \in 1..Ticks :
                      TweenFrame(f, p) \/ DisperseFrame(f, p) \/ AssembleFrame(f, p)>>_vars)

\* what makes the three callbacks enabled whenever they are pending: a
\* pending frame has a later tick to observe and a callback stays within the
\* bound on texture loads
CallbacksEnabled ==
    /\ \A f \in frames : f.p < Ticks
    /\ nextLoad <= MaxLoads + 1
    /\ three = "loading" => WithinBounds(threeLoaded(Cur))

(* ------------------ construction and destruction cycles ---------------- *)
\* Pages: the container and each control button present or missing.
Pages ==
    {[FullDom EXCEPT !.container = c, !.closeButton = x, !.prevButton = p,
                     !.nextButton = n] :
         c \in BOOLEAN, x \in BOOLEAN, p \in BOOLEAN, n \in BOOLEAN}

\* A page on which no viewer has been constructed yet.
InitDom ==
    /\ InitConfig
    /\ \E d \in Pages : InitFrom(Blank(d))
    /\ invoked = {}
    /\ last = [op |-> "none", busy |-> FALSE, index |-> 0, arg |-> NoArg]
    /\ orderly = TRUE
    /\ particle = NoParticle

Live == instances # <<>> /\ instances[Len(instances)].status = "live"
LiveKind == instances[Len(instances)].kind

\* new ParticleViewer(...) / new SimpleLightbox(...), as the page script does
\* once the previous viewer, if any, has been destroyed (src/index.ts)
Construct(kind) ==
    /\ ~Live
    /\ Len(instances) < MaxInstances
    /\ Call("constructor",
            IF kind = "particle" THEN constructor(Cur) ELSE simpleConstructor(Cur))

\* destroy() of the viewer the page holds
DestroyViewer ==
    /\ Live
    /\ Call("destroy", IF LiveKind = "particle" THEN destroy(Cur) ELSE simpleDestroy(Cur))

SimpleOpen(item) ==
    /\ Live /\ LiveKind = "simple"
    /\ CallWith("open", item, simpleOpen(Cur, item))

SimpleClose ==
    /\ Live /\ LiveKind = "simple"
    /\ Call("close", simpleClose(Cur))

\* A user event on an element that has a listener for it: every listener bound
\* on that element for that event runs; invoked is the set of their instances.
Dispatch(l) ==
    /\ l \in listeners
    /\ invoked' = {x[3] : x \in {y \in listeners : y[1] = l[1] /\ y[2] = l[2]}}
    /\ invoked' # invoked
    /\ UNCHANGED <<last, orderly>>
    /\ Commit(Cur)

NextDom ==
    \/ \E kind \in {"particle", "simple"} : Construct(kind)
    \/ DestroyViewer
    \/ \E item \in 0..(images - 1) : SimpleOpen(item)
    \/ SimpleClose
    \/ \E l \in listeners : Dispatch(l)

SpecDom == InitDom /\ [][NextDom]_vars

(* ------------------- one call at a time, large galleries --------------- *)
\* A ParticleViewer or a SimpleLightbox on a complete page with up to
\* MaxGalleryImages images.
InitGallery ==
    /\ images \in 1..MaxGalleryImages
    /\ reducedMotion \in BOOLEAN
    /\ openDuration = (IF reducedMotion THEN 0 ELSE DefaultOpenDuration)
    /\ closeDuration = (IF reducedMotion THEN 0 ELSE DefaultCloseDuration)
    /\ \E kind \in {"particle", "simple"} :
           InitFrom(IF kind = "particle" THEN constructor(Blank(FullDom))
                    ELSE simpleConstructor(Blank(FullDom)))
    /\ invoked = {}
    /\ last = [op |-> "constructor", busy |-> FALSE, index |-> 0, arg |-> NoArg]
    /\ orderly = TRUE
    /\ particle = NoParticle

\* the user acts on the ParticleViewer only when nothing is pending
Idle == Live /\ LiveKind = "particle" /\ ~Busy

IdleOpen(item) == Idle /\ OpenCall(item)
IdleClose == Idle /\ CloseCall
IdleNext == Idle /\ NextCall
IdlePrev == Idle /\ PrevCall
IdleDot(i) == Idle /\ DotClick(i)

SimpleNext ==
    /\ Live /\ LiveKind = "simple"
    /\ Call("next", simpleNext(Cur))

SimplePrev ==
    /\ Live /\ LiveKind = "simple"
    /\ Call("prev", simplePrev(Cur))

SimpleDot(i) ==
    /\ Live /\ LiveKind = "simple" /\ images > 1
    /\ CallWith("dot", i, simpleDotClick(Cur, i))

NextGallery ==
    \/ \E item \in OpenItems : IdleOpen(item)
    \/ IdleClose
    \/ IdleNext
    \/ IdlePrev
    \/ \E i \in 0..(images - 1) : IdleDot(i)
    \/ ThreeLoaded
    \/ \E l \in loads : TextureLoaded(l)
    \/ \E l \in loads : TextureFailed(l)
    \/ \E f \in frames, p \in 1..Ticks : TweenFrame(f, p)
    \/ \E f \in frames, p \in 1..Ticks : DisperseFrame(f, p)
    \/ \E f \in frames, p \in 1..Ticks : AssembleFrame(f, p)
    \/ RenderFrame
    \/ \E item \in 0..(images - 1) : SimpleOpen(item)
    \/ SimpleClose
    \/ SimpleNext
    \/ SimplePrev
    \/ \E i \in 0..(images - 1) : SimpleDot(i)

SpecGallery == InitGallery /\ [][NextGallery]_vars


(* --------------------------- the vertex shader ------------------------- *)
\* Floats are fixed-point numbers in units of 1/FOne; positions are vectors
\* <<x, y, z>> in the same units.
FOne == 1000

\* the grid of the PlaneGeometry (config.segments), the side of the image in
\* world units, the resolution of Math.random(), and the samples of uProgress
\* and uTime that the frames observe
Segments == 2
ImageSize == 2
RandomSteps == 200
ProgressSteps == 4
TimeSamples == 4

Mul(a, b) == (a * b) \div FOne
\* a / b rounded to the nearest representable value, as float arithmetic does
RoundDiv(a, b) == (2 * a + b) \div (2 * b)

RECURSIVE SqrtFrom(_, _)
SqrtFrom(x, r) == IF (r + 1) * (r + 1) > x THEN r ELSE SqrtFrom(x, r + 1)
RECURSIVE SqrtBetween(_, _, _)
SqrtBetween(x, lo, hi) ==
    IF hi - lo <= 1 THEN SqrtFrom(x, lo)
    ELSE LET mid == (lo + hi) \div 2
         IN  IF mid * mid <= x THEN SqrtBetween(x, mid, hi) ELSE SqrtBetween(x, lo, mid)
\* Math.sqrt / length, rounded down
sqrt(x) == SqrtBetween(x, 0, 46340)

clamp(x, lo, hi) == Max(lo, Min(x, hi))
mix(a, b, k) == (a * (FOne - k) + b * k) \div FOne
smoothstep(edge0, edge1, x) ==
    LET k == clamp(((x - edge0) * FOne) \div (edge1 - edge0), 0, FOne)
    IN  Mul(Mul(k, k), 3 * FOne - 2 * k)

Vec(x, y, z) == <<x, y, z>>
VAdd(a, b) == <<a[1] + b[1], a[2] + b[2], a[3] + b[3]>>
\* a vector times a fixed-point factor
VMul(a, k) == <<Mul(a[1], k), Mul(a[2], k), Mul(a[3], k)>>
\* a vector times a whole number
VTimes(a, n) == <<a[1] * n, a[2] * n, a[3] * n>>
VMix(a, b, k) == <<mix(a[1], b[1], k), mix(a[2], b[2], k), mix(a[3], b[3], k)>>
normalize(a) ==
    LET len == sqrt(a[1] * a[1] + a[2] * a[2] + a[3] * a[3])
    IN  <<(a[1] * FOne) \div len, (a[2] * FOne) \div len, (a[3] * FOne) \div len>>

\* sin and cos sampled at whole quarter turns
SinQ(k) == CASE k % 4 = 0 -> 0 [] k % 4 = 1 -> FOne [] k % 4 = 2 -> 0 [] OTHER -> 0 - FOne
CosQ(k) == SinQ(k + 1)
\* sin(p * 3.14159): a parabola through 0, 1/2 and 1, and, 3.14159 being less
\* than pi, not zero at p = 1
SinPi(p) == Mul(4 * p, FOne - p) + (IF p = FOne THEN 1 ELSE 0)

\* A variant of bezierQuadratic whose curve ends at the control point p1.
bezierQuadraticSwapped(p0, p1, p2, k) ==
    LET oneMinusT == FOne - k
    IN  VAdd(VAdd(VMul(p0, Mul(oneMinusT, oneMinusT)), VMul(p2, 2 * Mul(oneMinusT, k))),
             VMul(p1, Mul(k, k)))

\* bezierQuadratic (particles.vert lines 20-23)
bezierQuadratic(p0, p1, p2, k) ==
    LET oneMinusT == FOne - k
    IN  VAdd(VAdd(VMul(p0, Mul(oneMinusT, oneMinusT)), VMul(p1, 2 * Mul(oneMinusT, k))),
             VMul(p2, Mul(k, k)))

\* getParticlePosition (particles.vert lines 26-78) for the vertex and the
\* uniforms of a
getParticlePosition(p, finalPos, a) ==
    LET uMode == a.uMode
        disintegratePhase == smoothstep(0, (4 * FOne) \div 10, p)
        disperseDir == normalize(VAdd(VAdd(a.aStartPosition,
                                           VMul(a.aCurveOffset, FOne \div 2)),
                                      Vec(1, 1, 1)))
        strength0 == FOne - disintegratePhase
        strength1 == Mul(strength0, strength0)
        disperseStrength ==
            Mul(strength1, mix(FOne, smoothstep(0, (3 * FOne) \div 10, p), uMode))
        disperseOffset == VTimes(VMul(disperseDir, disperseStrength), 200)
        zSeparation == Mul(disperseStrength, a.aCurveOffset[3]) * 300
        travelPhase == smoothstep((3 * FOne) \div 10, (75 * FOne) \div 100, p)
        curveFactor == mix(250, 50, uMode)
        midPoint == VAdd(VMix(a.aStartPosition, finalPos, FOne \div 2),
                         VTimes(a.aCurveOffset, curveFactor))
        bezierPos == bezierQuadratic(a.aStartPosition, midPoint, finalPos, travelPhase)
        uniquePhase == IF a.aCurveOffset[1] >= 0 THEN 1 ELSE 0
        floatTime == a.uTime + uniquePhase
        floatStrength == Mul(Mul(SinPi(p), (7 * FOne) \div 10),
                             mix(FOne, (2 * FOne) \div 10, uMode))
        floatOffset ==
            VTimes(VMul(Vec(Mul(SinQ(floatTime), a.aCurveOffset[1]),
                            Mul(CosQ(floatTime), a.aCurveOffset[2]),
                            Mul(SinQ(floatTime), a.aCurveOffset[3]) \div 2),
                        floatStrength), 80)
        settlePhase == smoothstep((7 * FOne) \div 10, FOne, p)
        settleEase == Mul(Mul(settlePhase, settlePhase), 3 * FOne - 2 * settlePhase)
        activeEffects == FOne - settleEase
        pos1 == VAdd(bezierPos, VMul(disperseOffset, activeEffects))
        pos2 == VAdd(pos1, Vec(0, 0, Mul(zSeparation, activeEffects)))
        pos3 == VAdd(pos2, VMul(floatOffset, activeEffects))
        morphDir == Vec(SinQ(a.uTime + uniquePhase), CosQ(a.uTime + uniquePhase),
                        SinQ(uniquePhase))
        pos4 == VAdd(pos3, VTimes(VMul(morphDir, a.uDispersion), 400))
    IN  VAdd(pos4, Vec(0, 0, a.uDispersion * 80))

\* main (particles.vert lines 84-85)
localProgress(a) ==
    clamp(((a.uProgress - a.aDelay) * FOne) \div (FOne - a.aDelay), 0, FOne)

\* main (particles.vert line 95): currentPos
currentPos(a) == getParticlePosition(localProgress(a), a.position, a)

\* vRandom, the varying the vertex shader hands to the fragment shader
\* (particles.vert, line 82)
vRandom(a) == a.aCurveOffset[1]

\* The target shape the fragment shader picks (particles.frag, lines 63-68):
\* distRotated, the rotated square, unless vRandom is below -0.2 or above 0.2
targetShape(r) ==
    IF r < 0 - FOne \div 5 THEN "circle"
    ELSE IF r > FOne \div 5 THEN "triangle"
    ELSE "square"

\* Math.random(): the least, a middle and the greatest value below 1
RandomValues == {0, RandomSteps \div 2, RandomSteps - 1}
random(r) == RoundDiv(r * FOne, RandomSteps)

\* delays[i] (ParticleViewer.open, lines 501-505) for the vertex at uv (u, v)
delayOf(u, v, r) ==
    LET centerU == u - FOne \div 2
        centerV == v - FOne \div 2
        \* distanceFromCenter / maxDistance, maxDistance = sqrt(0.5)
        normalizedDistance == sqrt(2 * (centerU * centerU + centerV * centerV))
    IN  Mul(FOne - normalizedDistance, FOne \div 4)
            + RoundDiv(r * (FOne \div 20), RandomSteps)

\* curveOffsets[i] (lines 497-499)
curveOffsetOf(rx, ry) ==
    Vec((random(rx) - FOne \div 2) * 4, (random(ry) - FOne \div 2) * 4, 0)

\* where the <img> element may lie on the page (lines 488-495)
StartCoords == {0 - 3 * FOne, FOne}

\* the attributes that open() generates for the vertex (iu, iv) of the grid
\* (lines 482-508), with the uniforms of a new ShaderMaterial (lines 514-524)
Vertex(iu, iv, rx, ry, rd, sx, sy) ==
    LET u == (iu * FOne) \div Segments
        v == (iv * FOne) \div Segments
    IN  [position |-> Vec((u - FOne \div 2) * ImageSize, (FOne \div 2 - v) * ImageSize, 0),
         aStartPosition |-> Vec(sx, sy, 0),
         aCurveOffset |-> curveOffsetOf(rx, ry),
         aDelay |-> delayOf(u, v, rd),
         uProgress |-> 0, uMode |-> 0, uDispersion |-> 0, uTime |-> 0]

viewer == <<images, reducedMotion, openDuration, closeDuration, three, awaiting,
            scene, renderer, currentPoints, currentMesh, isAnimating, animationId,
            renderId, currentIndex, paginationStartIndex, containerVisible,
            captionVisible, captionText, bodyOverflow, focus, listeners, loads,
            nextLoad, tex, texDisposals, sess, sceneChildren, frames,
            renderFrames, dom, instances, invoked, destroyed, last, orderly>>

\* One vertex of the Points that an open() has created.
InitShader ==
    /\ images = 1 /\ reducedMotion = FALSE
    /\ openDuration = DefaultOpenDuration /\ closeDuration = DefaultCloseDuration
    /\ InitFrom(constructor(Blank(FullDom)))
    /\ invoked = {}
    /\ last = [op |-> "constructor", busy |-> FALSE, index |-> 0, arg |-> NoArg]
    /\ orderly = TRUE
    /\ \E iu, iv \in 0..Segments, rx, ry, rd \in RandomValues, sx, sy \in StartCoords :
           particle = Vertex(iu, iv, rx, ry, rd, sx, sy)

\* a frame of a tween writes uProgress (tweenProgress, line 829)
WriteProgress(k) ==
    /\ particle' = [particle EXCEPT !.uProgress = (k * FOne) \div ProgressSteps]
    /\ UNCHANGED viewer

\* close() switches the shader to close mode (line 566)
WriteMode(m) ==
    /\ particle' = [particle EXCEPT !.uMode = m]
    /\ UNCHANGED viewer

\* a dispersion or reassembly frame writes uDispersion (lines 649, 719)
WriteDispersion(k) ==
    /\ particle' = [particle EXCEPT !.uDispersion = (k * FOne) \div 2]
    /\ UNCHANGED viewer

\* the render loop advances uTime (animate, line 909)
AdvanceTime ==
    /\ particle' = [particle EXCEPT !.uTime = (@ + 1) % TimeSamples]
    /\ UNCHANGED viewer

NextShader ==
    \/ \E k \in 0..ProgressSteps : WriteProgress(k)
    \/ \E m \in {0, FOne} : WriteMode(m)
    \/ \E k \in 0..2 : WriteDispersion(k)
    \/ AdvanceTime

SpecShader == InitShader /\ [][NextShader]_vars

(* ------------------- the geometry of the point cloud ------------------- *)
\* In SpecGeometry the variable particle holds the window size, the size of
\* the displayed image and one vertex of the session's BufferGeometry with
\* all its attributes; the viewer runs beside it, one call at a time.

\* defaultConfig.padding (line 108), in units of 1/FOne
Padding == 1100

\* window.innerWidth and window.innerHeight, in px
Viewports == {<<800, 600>>, <<400, 600>>}
\* getBoundingClientRect() of the source <img>: left, top, width, height
ImgRects == {<<100, 50, 200, 100>>, <<0, 300, 100, 100>>}
\* naturalWidth and naturalHeight of a loaded image
ImageSizes == {<<200, 200>>, <<400, 200>>}
\* Math.random(): the least and the greatest value below 1
GeoRandoms == {0, RandomSteps - 1}

\* this.currentPoints.geometry before open() and after cleanupScene
NoGeometry == <<>>

\* geometry.attributes.position.count of PlaneGeometry(w, h, segments, segments)
PlaneCount == (Segments + 1) * (Segments + 1)

\* the position and the uv of the vertex in column iu and row iv of
\* new THREE.PlaneGeometry(w, h, segments, segments) (lines 454-459, 695)
planePosition(iu, iv, w, h) ==
    Vec(RoundDiv(iu * w, Segments) - w \div 2, h \div 2 - RoundDiv(iv * h, Segments), 0)
planeUv(iu, iv) == <<(iu * FOne) \div Segments, FOne - (iv * FOne) \div Segments>>

\* ParticleViewer.calculateViewDimensions (lines 920-933); open() computes the
\* same pair inline (lines 462-472)
calculateViewDimensions(size, vp) ==
    IF size[1] * vp[2] > size[2] * vp[1]
    THEN LET viewWidth == Mul(size[1], Padding)
         IN  <<viewWidth, RoundDiv(viewWidth * vp[2], vp[1])>>
    ELSE LET viewHeight == Mul(size[2], Padding)
         IN  <<RoundDiv(viewHeight * vp[1], vp[2]), viewHeight>>

\* startX and startY of the vertex at uv (lines 488-492 and 779-783)
startXY(uv, rect, vp, view) ==
    LET sourcePx == rect[1] + Mul(uv[1], rect[3])
        sourcePy == rect[2] + Mul(FOne - uv[2], rect[4])
    IN  <<RoundDiv(sourcePx * view[1], vp[1]) - view[1] \div 2,
          view[2] \div 2 - RoundDiv(sourcePy * view[2], vp[2])>>

\* rotationSpeeds[i] (line 506)
rotationSpeedOf(r) == (random(r) - FOne \div 2) * 20

\* The geometry and attributes open() builds (lines 452-512), seen at the
\* vertex (iu, iv).
newGeometry(iu, iv, size, rect, vp, rx, ry, rd, rr) ==
    LET uv == planeUv(iu, iv)
        xy == startXY(uv, rect, vp, calculateViewDimensions(size, vp))
    IN  [iu |-> iu, iv |-> iv, count |-> PlaneCount, uv |-> uv,
         position |-> planePosition(iu, iv, size[1], size[2]),
         aStartPosition |-> Vec(xy[1], xy[2], 0),
         aCurveOffset |-> curveOffsetOf(rx, ry),
         aDelay |-> delayOf(uv[1], uv[2], rd),
         aRotationSpeed |-> rotationSpeedOf(rr)]

\* A variant of updateStartPositions that regenerates the flight parameters
\* of the vertex as open() does.
updateStartPositionsRegenerating(s, q, rect) ==
    IF s.currentPoints = 0 \/ q.geometry = NoGeometry THEN q
    ELSE LET g == q.geometry
         IN  [q EXCEPT !.geometry = newGeometry(g.iu, g.iv, q.imageSize, rect, q.innerSize,
                                                0, 0, 0, 0)]

\* ParticleViewer.updateStartPositions (lines 766-788): x and y of
\* aStartPosition are rewritten, nothing else
updateStartPositions(s, q, rect) ==
    IF s.currentPoints = 0 \/ q.geometry = NoGeometry THEN q
    ELSE LET xy == startXY(q.geometry.uv, rect, q.innerSize,
                           calculateViewDimensions(q.imageSize, q.innerSize))
         IN  [q EXCEPT !.geometry.aStartPosition = Vec(xy[1], xy[2], @[3])]

\* boundResize (lines 289-295) after the window has taken the size vp; the
\* camera and uSize that updateCamera sets are not part of the geometry
boundResize(s, q, vp, rect) ==
    LET q1 == [q EXCEPT !.innerSize = vp]
    IN  IF s.containerVisible THEN updateStartPositions(s, q1, rect) ELSE q1

\* The part of swapImageContent that works on the geometry (lines 692-705):
\* the position attribute is replaced by that of a PlaneGeometry of the new
\* image's size, then the start positions are recomputed.
swapGeometry(s, q, size, rect) ==
    IF q.geometry = NoGeometry THEN q
    ELSE LET g == q.geometry
             q1 == [q EXCEPT !.geometry.position = planePosition(g.iu, g.iv, size[1], size[2]),
                             !.geometry.count = PlaneCount,
                             !.imageSize = size]
         IN  updateStartPositions(s, q1, rect)

\* What a step of the viewer from s0 to s1 does to the geometry: cleanupScene
\* disposes it, the load callback of open() builds a new one, and
\* swapImageContent, which is where uTexture changes, swaps its content.
GeoAfter(s0, s1, q) ==
    IF s1.currentPoints = 0 THEN {[q EXCEPT !.geometry = NoGeometry]}
    ELSE IF s1.currentPoints # s0.currentPoints
    THEN {[q EXCEPT !.imageSize = size,
                    !.geometry = newGeometry(iu, iv, size, rect, q.innerSize, rx, ry, rd, rr)] :
              iu \in 0..Segments, iv \in 0..Segments, size \in ImageSizes, rect \in ImgRects,
              rx \in GeoRandoms, ry \in GeoRandoms, rd \in GeoRandoms, rr \in GeoRandoms}
    ELSE IF s1.sess[s1.currentPoints].uTexture # s0.sess[s1.currentPoints].uTexture
    THEN {swapGeometry(s1, q, size, rect) : size \in ImageSizes, rect \in ImgRects}
    ELSE {q}

InitGeometry ==
    /\ images = MaxImages
    /\ reducedMotion \in BOOLEAN
    /\ openDuration = (IF reducedMotion THEN 0 ELSE DefaultOpenDuration)
    /\ closeDuration = (IF reducedMotion THEN 0 ELSE DefaultCloseDuration)
    /\ InitFrom(constructor(Blank(FullDom)))
    /\ invoked = {}
    /\ last = [op |-> "constructor", busy |-> FALSE, index |-> 0, arg |-> NoArg]
    /\ orderly = TRUE
    /\ \E vp \in Viewports :
           particle = [innerSize |-> vp, imageSize |-> <<0, 0>>, geometry |-> NoGeometry]

GeoDo(s) ==
    /\ WithinBounds(s)
    /\ CommitViewer(s)
    /\ UNCHANGED <<config, invoked>>
    /\ particle' \in GeoAfter(Cur, s, particle)

GeoOpen(item) ==
    /\ Idle /\ nextLoad + Len(awaiting) <= MaxLoads
    /\ GeoDo(open(Cur, item))
    /\ CalledWith("open", item, open(Cur, item))

GeoClose == Idle /\ GeoDo(close(Cur)) /\ Called("close", close(Cur))

GeoNext == Idle /\ GeoDo(next(Cur)) /\ Called("next", next(Cur))

GeoThreeLoaded == three = "loading" /\ GeoDo(threeLoaded(Cur)) /\ Callback

GeoTextureLoaded(l) ==
    /\ l \in loads
    /\ GeoDo(IF l.kind = "open" THEN openTextureLoaded(Cur, l) ELSE navTextureLoaded(Cur, l))
    /\ Callback

GeoTweenFrame(f, p) ==
    /\ f \in frames /\ f.kind = "tween" /\ p > f.p
    /\ GeoDo(frame(Fired(f), f, p))
    /\ Callback

GeoDisperseFrame(f, p) ==
    /\ f \in frames /\ f.kind = "disperse" /\ p > f.p
    /\ GeoDo(disperseFrame(Fired(f), f, p))
    /\ Callback

GeoAssembleFrame(f, p) ==
    /\ f \in frames /\ f.kind = "assemble" /\ p > f.p
    /\ GeoDo(assembleFrame(Fired(f), f, p))
    /\ Callback

GeoRenderFrame ==
    /\ renderFrames > 0
    /\ GeoDo(animate([Cur EXCEPT !.renderFrames = @ - 1]))
    /\ Callback

\* the window is resized to vp and the resize listener runs
Resize(vp, rect) ==
    /\ Listener("window", 0, "resize", Len(instances)) \in listeners
    /\ particle' = boundResize(Cur, particle, vp, rect)
    /\ UNCHANGED viewer

NextGeometry ==
    \/ \E item \in 0..(images - 1) : GeoOpen(item)
    \/ GeoClose
    \/ GeoNext
    \/ GeoThreeLoaded
    \/ \E l \in loads : GeoTextureLoaded(l)
    \/ \E f \in frames, p \in 1..Ticks : GeoTweenFrame(f, p)
    \/ \E f \in frames, p \in 1..Ticks : GeoDisperseFrame(f, p)
    \/ \E f \in frames, p \in 1..Ticks : GeoAssembleFrame(f, p)
    \/ GeoRenderFrame
    \/ \E vp \in Viewports, rect \in ImgRects : Resize(vp, rect)

SpecGeometry == InitGeometry /\ [][NextGeometry]_vars

(* ---------------------------- observations ----------------------------- *)
\* GPU objects allocated and not disposed
LiveTextures == {t \in LoadIds : tex[t] = "live"}
LiveGeometries == {i \in LoadIds : sess[i].geometry = "live"}
LiveMaterials == {i \in LoadIds : sess[i].material = "live"}
LiveMeshMaterials == {i \in LoadIds : sess[i].meshMaterial = "live"}
Outstanding ==
    Cardinality(LiveTextures) + Cardinality(LiveGeometries) + Cardinality(LiveMaterials)
    + Cardinality(LiveMeshMaterials) + (IF renderer THEN 1 ELSE 0)

\* no texture load, suspended open() or frame callback is pending
Quiescent == ~Busy /\ renderFrames = 0

\* a tween, dispersion or reassembly frame is pending, or a navigation's
\* texture is loading
NavLoading == \E l \in loads : l.kind = "nav"
InFlight == frames # {} \/ NavLoading

(* ------------------------------- claims -------------------------------- *)
\* C1: once destroy() has been called and every pending texture load and frame
\* callback has run, no allocated GPU object (geometry, material, texture,
\* renderer) is left undisposed.
C1_ResourceAccounting == (destroyed /\ Quiescent) => Outstanding = 0


\* C2: after an open, any number of navigations and a close, each issued once
\* the previous one has completed, every texture loaded in the cycle has been
\* disposed (the texture that swapImageContent replaced included).
C2_NoTextureLeakAcrossCycle ==
    (orderly /\ ~destroyed /\ Quiescent /\ currentPoints = 0) => LiveTextures = {}

\* C3: the scene holds at most one Points/Mesh pair, the one that
\* currentPoints/currentMesh reference.
C3_SingleSession ==
    \A c \in sceneChildren :
        /\ c[1] = "points" => c[2] = currentPoints
        /\ c[1] = "mesh" => c[2] = currentMesh


\* C4: while an open tween, a close tween, a navigation texture load, a
\* dispersion stage or a reassembly stage is in flight, a navigation request
\* (next(), prev() -- also reached by a swipe or an arrow key -- or a click on
\* any pagination dot) is rejected: it starts no load and changes no state.
C4_NavigationRejectedInFlight ==
    InFlight =>
        /\ next(Cur) = Cur
        /\ prev(Cur) = Cur
        /\ \A index \in 0..(images - 1) : dotClick(Cur, index) = Cur


\* the terminal state's side effects are in place in s: the container and the
\* caption have lost 'visible', body scrolling is restored, no tween,
\* dispersion or reassembly callback is pending and the session is released
Terminal(s) ==
    /\ ~s.containerVisible
    /\ ~s.captionVisible
    /\ s.bodyOverflow = ""
    /\ s.frames = {}
    /\ s.currentPoints = 0
    /\ s.currentMesh = 0
    /\ s.sceneChildren = {}

\* C5: whenever a tween, dispersion or reassembly callback is pending, close()
\* and destroy() each cancel it and put the terminal side effects in place
\* before they return.
C5_CancelImmediately ==
    frames # {} => (Terminal(close(Cur)) /\ Terminal(destroy(Cur)))

\* C6: once destroy() has returned and no public method has been called since,
\* no tween, dispersion, reassembly or render-loop callback is pending -- the
\* pending ones were cancelled and no later callback schedules another.
C6_NoFrameAfterDestroy ==
    (destroyed /\ last.op = "destroy") => (frames = {} /\ renderFrames = 0)

\* what a texture failure has to give back: the animation flag, the current
\* index, the caption, the container's visibility and the active session
StableView(s) ==
    <<s.isAnimating, s.currentIndex, s.captionVisible, s.captionText,
      s.containerVisible, s.currentPoints, s.currentMesh>>

\* s after every texture load pending in it has failed
RECURSIVE FailPending(_)
FailPending(s) ==
    IF s.loads = {} THEN s
    ELSE LET l == CHOOSE x \in s.loads : TRUE
         IN  FailPending(IF l.kind = "open" THEN openTextureFailed(s, l)
                         ELSE navTextureFailed(s, l))

\* C7: from a stable state (nothing pending, three.js loaded), an open() or a
\* navigation whose texture load fails leaves isAnimating false and the
\* current index, caption, container visibility and active session as they
\* were before the request.
C7_FailedLoadRestores ==
    (~Busy /\ ~isAnimating /\ three = "loaded" /\ nextLoad <= MaxLoads) =>
        /\ \A item \in OpenItems :
               StableView(FailPending(open(Cur, item))) = StableView(Cur)
        /\ StableView(FailPending(next(Cur))) = StableView(Cur)
        /\ StableView(FailPending(prev(Cur))) = StableView(Cur)


\* C8: a failed texture load leaves the session that was open before the
\* request either untouched and still the active one, or disposed.  The
\* failure callback changes no GPU object, no session reference and no scene
\* membership; an open() that replaces an open session has disposed that
\* session's geometry, its two materials and the textures it references
\* before the load is issued.  (A texture that swapImageContent replaced
\* earlier is no longer referenced by the session: that is claim C2.)
C8_FailedLoadIsLocal ==
    [][/\ (\E l \in loads : TextureFailed(l)) =>
              /\ sess' = sess
              /\ currentPoints' = currentPoints
              /\ currentMesh' = currentMesh
              /\ sceneChildren' = sceneChildren
              /\ renderer' = renderer
              /\ \A t \in LoadIds : tex[t] # "pending" => tex'[t] = tex[t]
       /\ ((\E item \in OpenItems : OpenCall(item)) /\ currentPoints # 0) =>
              LET old == sess[currentPoints]
              IN  /\ sess'[currentPoints] = DisposedSess
                  /\ tex'[old.uTexture] = "disposed"
                  /\ tex'[old.uTextureNext] = "disposed"
                  /\ <<"points", currentPoints>> \notin sceneChildren'
                  /\ <<"mesh", currentPoints>> \notin sceneChildren'
      ]_vars

\* a navigation's texture failed to load, and the session it was requested
\* on is still the active one, intact and accepting requests
C8_Witness ==
    /\ last.op \in {"next", "prev", "dot"}
    /\ nextLoad > 1 /\ tex[nextLoad - 1] = "failed"
    /\ loads = {} /\ ~isAnimating
    /\ currentPoints # 0 /\ currentMesh = currentPoints
    /\ sess[currentPoints].geometry = "live"
    /\ sess[currentPoints].material = "live"
    /\ sess[currentPoints].meshMaterial = "live"
    /\ tex[sess[currentPoints].uTexture] = "live"
    /\ {<<"points", currentPoints>>, <<"mesh", currentPoints>>} \subseteq sceneChildren


\* listeners bound by instance k that are still registered
ListenersOf(k) == {l \in listeners : l[3] = k}

\* C9: a constructor that throws because the container or a control button is
\* missing leaves nothing behind: no listener of the failed instance is bound
\* and the page's elements are as they were (nothing hidden, nothing appended).
C9_NoPartialInit ==
    \A k \in 1..Len(instances) :
        instances[k].status = "threw" =>
            /\ ListenersOf(k) = {}
            /\ ~dom.prevHidden /\ ~dom.nextHidden /\ ~dom.paginationHidden
            /\ dom.appended = 0

\* C10: after destroy() no listener of the destroyed instance is bound on any
\* element, so a user event never runs the handlers of more than one instance.
C10_NoBindingAfterDestroy ==
    /\ \A l \in listeners : instances[l[3]].status # "destroyed"
    /\ Cardinality(invoked) <= 1


\* the GPU objects that session id references are all undisposed
SessionIntact(id) ==
    /\ sess[id].geometry = "live"
    /\ sess[id].material = "live"
    /\ sess[id].meshMaterial = "live"
    /\ tex[sess[id].uTexture] = "live"
    /\ tex[sess[id].uTextureNext] = "live"
    /\ tex[sess[id].map] = "live"

\* C11: the active session references only undisposed geometry, materials and
\* textures, and every object in the scene is undisposed -- also when the
\* session was opened after an earlier one was torn down by close(), by a
\* replacing open() or by destroy().  (The renderer is referenced only through
\* this.renderer, which destroy() sets to null as it disposes it.)
C11_NoStaleHandles ==
    /\ currentPoints # 0 => SessionIntact(currentPoints)
    /\ currentMesh # 0 => SessionIntact(currentMesh)
    /\ \A c \in sceneChildren : SessionIntact(c[2])


\* C12: with no session open (before any open, after a completed close, while
\* an open's texture is still loading) close(), next() and prev() change
\* nothing and leave nothing pending; with at most one image next() and prev()
\* change nothing either.
C12_UnmetPreconditionNoOp ==
    /\ currentPoints = 0 =>
           (close(Cur) = Cur /\ next(Cur) = Cur /\ prev(Cur) = Cur)
    /\ images <= 1 => (next(Cur) = Cur /\ prev(Cur) = Cur)

\* a close has completed, three.js is loaded and there are several images:
\* next() and prev() get as far as transitionTo's check for a session
C12_Witness ==
    /\ last.op = "close" /\ ~Busy
    /\ currentPoints = 0 /\ ~isAnimating
    /\ three = "loaded" /\ images > 1


\* the latest accepted call has run to completion and its texture, if it
\* needed one, did load
Completed ==
    /\ ~Busy
    /\ LiveKind = "simple" \/ (nextLoad > 1 /\ tex[nextLoad - 1] # "failed")

\* s after k further calls of SimpleLightbox.next
RECURSIVE SimpleNextTimes(_, _)
SimpleNextTimes(s, k) == IF k = 0 THEN s ELSE SimpleNextTimes(simpleNext(s), k - 1)

C14_PaginationWindow ==
    images > maxVisibleDots =>
        /\ 0 <= paginationStartIndex
        /\ paginationStartIndex <= images - maxVisibleDots
        /\ paginationStartIndex <= currentIndex
        /\ currentIndex < paginationStartIndex + maxVisibleDots
        /\ currentIndex \in visibleDots(Cur)
        /\ (images = 12 /\ currentIndex = 11) => paginationStartIndex = 7


\* the latest accepted call is a navigation of the ParticleViewer
Navigated == LiveKind = "particle" /\ last.op \in {"next", "prev", "dot"}

\* the index that navigation asked for
NavTarget ==
    CASE last.op = "next" -> (last.index + 1) % images
      [] last.op = "prev" -> (last.index - 1 + images) % images
      [] OTHER -> last.arg

\* C15: when a navigation to index j has completed on the animated path,
\* currentIndex = j, uTextureMix = 0, uDispersion = 0, uTexture, uTextureNext
\* and the mesh map hold the new texture, the mesh is visible with opacity 1,
\* the points are hidden and isAnimating is false; uProgress is 1 from the
\* request on.
C15_NavigationCompleted ==
    /\ (Navigated /\ ~reducedMotion /\ Completed) =>
           LET cp == currentPoints
               t == nextLoad - 1
           IN  /\ currentIndex = NavTarget
               /\ cp # 0 /\ currentMesh = cp
               /\ sess[cp].uTextureMix = 0
               /\ sess[cp].uDispersion = 0
               /\ sess[cp].uTexture = t /\ sess[cp].uTextureNext = t
               /\ sess[cp].map = t /\ tex[t] = "live"
               /\ sess[cp].meshVisible /\ sess[cp].meshOpacity = OpOne
               /\ ~sess[cp].pointsVisible
               /\ ~isAnimating
    /\ (Navigated /\ ~reducedMotion) => sess[currentPoints].uProgress = UOne


\* the latest accepted call is an open() of the ParticleViewer whose texture
\* has loaded and whose tween has run to its end
Opened == Live /\ LiveKind = "particle" /\ last.op = "open" /\ Completed

\* C16: when an open completes, whatever the tween's duration, uProgress = 1,
\* currentIndex is the index of the opened item, the points are hidden with
\* opacity 0 but still in the scene and not disposed, the mesh is visible with
\* opacity 1, the container is visible and isAnimating is false.
C16_OpenCompleted ==
    Opened =>
        LET cp == currentPoints
        IN  /\ cp # 0 /\ currentMesh = cp
            /\ sess[cp].uProgress = UOne
            /\ currentIndex = last.arg
            /\ ~sess[cp].pointsVisible /\ sess[cp].uOpacity = 0
            /\ <<"points", cp>> \in sceneChildren
            /\ sess[cp].geometry = "live" /\ sess[cp].material = "live"
            /\ sess[cp].meshVisible /\ sess[cp].meshOpacity = OpOne
            /\ <<"mesh", cp>> \in sceneChildren
            /\ containerVisible
            /\ ~isAnimating

\* an open with a zero-duration tween has completed
C16_Witness ==
    /\ Opened /\ openDuration = 0 /\ ~reducedMotion
    /\ currentPoints # 0 /\ sess[currentPoints].uProgress = UOne
    /\ ~sess[currentPoints].pointsVisible /\ sess[currentPoints].meshVisible


\* the latest accepted call is a close() of the ParticleViewer and its tween
\* has run to its end
Closed == Live /\ LiveKind = "particle" /\ last.op = "close" /\ ~Busy

\* C17: when an accepted close() has completed, the container and the caption
\* are no longer visible, body scrolling is restored, currentPoints and
\* currentMesh are null, and the focus is on images[currentIndex].
C17_CloseCompleted ==
    Closed =>
        /\ ~containerVisible /\ ~captionVisible
        /\ bodyOverflow = ""
        /\ currentPoints = 0 /\ currentMesh = 0
        /\ focus = ImageFocus(currentIndex)


\* the tween that tweenProgress started in s, run tick by tick to its end
RECURSIVE runTween(_, _)
runTween(s, p) ==
    IF p <= Ticks /\ \E f \in s.frames : f.kind = "tween" /\ f.tracked
    THEN LET f == CHOOSE g \in s.frames : g.kind = "tween" /\ g.tracked
         IN  runTween(frame([s EXCEPT !.frames = @ \ {f}], f, p), p + 1)
    ELSE s

\* the states tweenProgress is entered in: the current session with the
\* points and the mesh as open() or close() may have prepared them
TweenInputs ==
    { [Cur EXCEPT !.sess[currentPoints].uProgress = start,
                  !.sess[currentPoints].pointsVisible = pv,
                  !.sess[currentPoints].uOpacity = IF pv THEN OpOne ELSE 0,
                  !.sess[currentPoints].meshVisible = mv,
                  !.sess[currentPoints].meshOpacity = IF mv THEN OpOne ELSE 0]
      : start \in {0, UOne}, pv \in BOOLEAN, mv \in BOOLEAN }

\* what remains of a state once no frame is pending
Settled(s) ==
    [s EXCEPT !.frames = {}, !.animationId = "null", !.renderFrames = 0,
              !.isAnimating = FALSE]

\* C18: a tween of duration 0 (reduced motion, or openDuration/closeDuration
\* of 0) runs every side effect inside the call, schedules no frame and has no
\* isAnimating period, and leaves the state that the animated tween leaves
\* once its last frame has run: classes, focus, visibility of mesh and points,
\* released resources.
C18_ZeroDurationEquivalence ==
    /\ \A f \in frames :
           f.kind = "tween" =>
               /\ ~reducedMotion
               /\ (IF f.target = 1 THEN openDuration ELSE closeDuration) > 0
    /\ (LiveKind = "particle" /\ currentPoints # 0 /\ frames = {}) =>
           \A s \in TweenInputs, target \in {0, 1} :
               LET zero == tweenProgress(s, target, 0)
               IN  /\ zero.frames = {}
                   /\ zero.isAnimating => s.isAnimating
                   /\ ~reducedMotion =>
                          LET duration == IF target = 1 THEN DefaultOpenDuration
                                          ELSE DefaultCloseDuration
                              animated == runTween(tweenProgress(s, target, duration), 1)
                          IN  /\ animated.frames = {}
                              /\ Settled(zero) = Settled(animated)

\* with both durations 0 and full motion, an open() has completed inside the
\* texture callback, and a close() now completes inside the call
C18_Witness ==
    /\ Opened /\ ~reducedMotion /\ openDuration = 0 /\ closeDuration = 0
    /\ frames = {} /\ ~isAnimating
    /\ sess[currentPoints].meshVisible /\ ~sess[currentPoints].pointsVisible
    /\ close(Cur).currentPoints = 0
    /\ ~close(Cur).containerVisible
    /\ close(Cur).frames = {}


\* C19: with reduced motion, the texture callback of an accepted navigation
\* swaps the content at once: currentIndex is the target, uTexture,
\* uTextureNext and the mesh map hold the new texture, the mesh is visible
\* with opacity 1, the points are hidden, isAnimating is false and no frame
\* has been scheduled; uDispersion is 0 in every state and no dispersion or
\* reassembly frame is ever pending.
C19_ReducedMotionNavigation ==
    (reducedMotion /\ Live) =>
        /\ \A f \in frames : f.kind \notin {"disperse", "assemble"}
        /\ \A id \in DOMAIN sess : sess[id].uDispersion = 0
        /\ \A l \in loads :
               (LiveKind = "particle" /\ l.kind = "nav") =>
                   LET s == navTextureLoaded(Cur, l)
                       cp == s.currentPoints
                   IN  /\ Navigated => l.item = NavTarget
                       /\ s.currentIndex = l.item
                       /\ cp # 0 /\ s.currentMesh = cp
                       /\ s.sess[cp].uTexture = l.id /\ s.sess[cp].uTextureNext = l.id
                       /\ s.sess[cp].map = l.id /\ s.tex[l.id] = "live"
                       /\ s.sess[cp].meshVisible /\ s.sess[cp].meshOpacity = OpOne
                       /\ ~s.sess[cp].pointsVisible
                       /\ ~s.isAnimating
                       /\ s.frames = frames

\* with reduced motion, the texture of a navigation to another image is about
\* to arrive, and its callback swaps the content and ends the navigation
C19_Witness ==
    /\ reducedMotion /\ Live /\ LiveKind = "particle" /\ Navigated
    /\ \E l \in loads :
           /\ l.kind = "nav" /\ l.item # currentIndex /\ isAnimating
           /\ navTextureLoaded(Cur, l).currentIndex = l.item
           /\ ~navTextureLoaded(Cur, l).isAnimating
           /\ navTextureLoaded(Cur, l).frames = {}


\* the number of dispose() calls that the teardown of s adds for texture t
Disposed(s, t) == cleanupScene(s).texDisposals[t] - s.texDisposals[t]

\* C20: no texture is ever disposed twice; a teardown disposes the texture of
\* uTexture once, and that of uTextureNext once when it is another texture;
\* a second teardown disposes nothing.
C20_NoDoubleDispose ==
    /\ \A t \in DOMAIN texDisposals : texDisposals[t] <= 1
    /\ (LiveKind = "particle" /\ currentPoints # 0) =>
           LET texture == sess[currentPoints].uTexture
               textureNext == sess[currentPoints].uTextureNext
           IN  /\ Disposed(Cur, texture) = 1
               /\ Disposed(Cur, textureNext) = 1
               /\ \A t \in DOMAIN texDisposals :
                      t \notin {texture, textureNext} => Disposed(Cur, t) = 0
               /\ cleanupScene(cleanupScene(Cur)).texDisposals
                      = cleanupScene(Cur).texDisposals
               /\ destroy(destroy(Cur)).texDisposals = destroy(Cur).texDisposals

\* the one session there has been was torn down during the dispersion stage,
\* while uTexture held the opened texture and uTextureNext the navigation's,
\* and each of the two was disposed once
C20_Witness ==
    /\ currentPoints = 0 /\ last.op = "destroy"
    /\ sess[1] = DisposedSess /\ sess[2] = NoSess
    /\ tex[1] = "disposed" /\ tex[2] = "disposed"
    /\ texDisposals[1] = 1 /\ texDisposals[2] = 1


\* C21: at uProgress = 1 and uDispersion = 0 the position function of the
\* vertex shader returns the vertex's final position, whatever the start
\* position, curve offset, delay, mode and time.
C21_TrajectoryConvergence ==
    (particle # NoParticle /\ particle.uProgress = FOne /\ particle.uDispersion = 0) =>
        currentPos(particle) = particle.position

\* a delayed vertex that started elsewhere, on a curved path, is at its final
\* position at uProgress = 1 in close mode
C21_Witness ==
    /\ particle # NoParticle
    /\ particle.uProgress = FOne /\ particle.uDispersion = 0 /\ particle.uMode = FOne
    /\ particle.aDelay > 0 /\ particle.aCurveOffset[1] # 0
    /\ particle.aStartPosition # particle.position
    /\ particle.uTime # 0
    /\ currentPos(particle) = particle.position

\* C22: at uProgress = 0 and uDispersion = 0 the position function returns
\* the vertex's start position, in open mode and in close mode.
C22_IdentityAtRest ==
    (particle # NoParticle /\ particle.uProgress = 0 /\ particle.uDispersion = 0) =>
        currentPos(particle) = particle.aStartPosition

\* C23: every delay that open() generates lies in [0, 0.30), and so
\* localProgress is 1 at uProgress = 1 and 0 at uProgress = 0.
C23_DelayRange ==
    particle # NoParticle =>
        /\ 0 <= particle.aDelay
        /\ particle.aDelay < (30 * FOne) \div 100
        /\ particle.uProgress = FOne => localProgress(particle) = FOne
        /\ particle.uProgress = 0 => localProgress(particle) = 0


\* the work that a call of the ParticleViewer left pending in s, run to its
\* end: the import resolves, the texture loads, every frame chain reaches its
\* last frame
RECURSIVE settle(_, _)
settle(s, n) ==
    IF n = 0 THEN s
    ELSE IF s.three = "loading" THEN settle(threeLoaded(s), n - 1)
    ELSE IF s.loads # {}
         THEN LET l == CHOOSE m \in s.loads : TRUE
              IN  settle(IF l.kind = "open" THEN openTextureLoaded(s, l)
                         ELSE navTextureLoaded(s, l), n - 1)
    ELSE IF s.frames # {}
         THEN LET f == CHOOSE g \in s.frames : TRUE
                  s1 == [s EXCEPT !.frames = @ \ {f}]
              IN  settle(CASE f.kind = "tween" -> frame(s1, f, Ticks)
                           [] f.kind = "disperse" -> disperseFrame(s1, f, Ticks)
                           [] OTHER -> assembleFrame(s1, f, Ticks), n - 1)
    ELSE s

\* what a caller of either viewer can observe of the navigation
NavView(s) ==
    [containerVisible |-> s.containerVisible, currentIndex |-> s.currentIndex,
     captionVisible |-> s.captionVisible,
     paginationStartIndex |-> s.paginationStartIndex]

\* C24: from a state in which nothing is in flight and no load has failed,
\* every call of the ParticleViewer, once completed, leaves the container
\* visibility, the current index, the caption visibility and the pagination
\* window start that the same call of SimpleLightbox leaves.
C24_SameNavigation ==
    (Idle /\ nextLoad <= MaxLoads /\ \A id \in LoadIds : tex[id] # "failed") =>
        /\ \A item \in OpenItems :
               NavView(settle(open(Cur, item), 6)) = NavView(simpleOpen(Cur, item))
        /\ NavView(settle(close(Cur), 6)) = NavView(simpleClose(Cur))
        /\ NavView(settle(next(Cur), 6)) = NavView(simpleNext(Cur))
        /\ NavView(settle(prev(Cur), 6)) = NavView(simplePrev(Cur))
        /\ \A i \in 0..(images - 1) :
               images > 1 =>
                   NavView(settle(dotClick(Cur, i), 6)) = NavView(simpleDotClick(Cur, i))


\* C25: frame requests are scheduled one at a time: at most one request of
\* the render loop and at most one request of a tween, dispersion or
\* reassembly chain is outstanding.
C25_OneFrameAtATime ==
    /\ renderFrames <= 1
    /\ Cardinality(frames) <= 1


\* a frame request of a close tween
ClosingFrame(f) == f.kind = "tween" /\ f.target = 0

\* C26: a close tween of positive duration releases the session only in its
\* last frame: while a frame of the tween is pending the session it closes
\* is intact, a frame before the last disposes nothing and keeps
\* currentPoints, even once the container has lost 'visible' past progress
\* 0.6, and the last frame runs cleanupScene.
C26_ReleaseAfterCloseTween ==
    \A f \in frames :
        ClosingFrame(f) =>
            /\ closeDuration > 0
            /\ currentPoints = f.sid => SessionIntact(f.sid)
            /\ \A p \in (f.p + 1)..Ticks :
                   LET s == frame(Fired(f), f, p)
                   IN  IF p < Ticks
                       THEN /\ s.currentPoints = currentPoints
                            /\ s.currentMesh = currentMesh
                            /\ s.texDisposals = texDisposals
                            /\ \A id \in DOMAIN sess :
                                   /\ s.sess[id].geometry = sess[id].geometry
                                   /\ s.sess[id].material = sess[id].material
                                   /\ s.sess[id].meshMaterial = sess[id].meshMaterial
                            /\ PastCloseHide(p) => ~s.containerVisible
                       ELSE /\ s.currentPoints = 0 /\ s.currentMesh = 0
                            /\ currentPoints # 0 => s.sess[currentPoints] = DisposedSess
                            /\ ~s.containerVisible

\* a close tween has passed progress 0.6: the container is hidden, the next
\* frame is pending and the session is still held
C26_Witness ==
    \E f \in frames :
        /\ ClosingFrame(f) /\ PastCloseHide(f.p) /\ f.p < Ticks
        /\ ~containerVisible /\ currentPoints = f.sid
        /\ sess[f.sid].geometry = "live"


\* C27: an animated navigation runs its stages in order.  From the request
\* until the texture has loaded and through the whole dispersion, isAnimating
\* is true and currentIndex keeps its old value, while uDispersion and
\* uTextureMix rise together; the frame in which dispersion reaches 1 swaps
\* the content and requests the first reassembly frame; during reassembly the
\* new index and texture are in place, nothing is swapped again, uDispersion
\* falls, and isAnimating stays true until the last frame.
C27_StageOrdering ==
    /\ \A l \in loads :
           (l.kind = "nav" /\ ~reducedMotion) =>
               /\ isAnimating
               /\ Navigated => (currentIndex = last.index /\ l.item = NavTarget)
               /\ navTextureLoaded(Cur, l).currentIndex = currentIndex
               /\ \E g \in navTextureLoaded(Cur, l).frames : g.kind = "disperse"
    /\ \A f \in frames :
           f.kind = "disperse" =>
               /\ isAnimating
               /\ Navigated => (currentIndex = last.index /\ f.item = NavTarget)
               /\ currentPoints # 0
               /\ sess[currentPoints].uDispersion = Smoothstep(f.p)
               /\ sess[currentPoints].uTextureMix = Smoothstep(f.p)
               /\ \A p \in (f.p + 1)..Ticks :
                      LET s == disperseFrame(Fired(f), f, p)
                      IN  IF p < Ticks
                          THEN /\ s.currentIndex = currentIndex
                               /\ s.sess[currentPoints].uTexture = sess[currentPoints].uTexture
                               /\ s.sess[currentPoints].uDispersion = Smoothstep(p)
                               /\ s.sess[currentPoints].uTextureMix = Smoothstep(p)
                               /\ \A g \in s.frames : g.kind # "assemble"
                               /\ s.isAnimating
                          ELSE /\ s.currentIndex = f.item
                               /\ s.sess[currentPoints].uTexture = f.tex
                               /\ s.sess[currentPoints].uDispersion = UOne
                               /\ \E g \in s.frames : g.kind = "assemble" /\ g.p = 0
                               /\ s.isAnimating
    /\ \A f \in frames :
           f.kind = "assemble" =>
               /\ isAnimating
               /\ currentIndex = f.item
               /\ currentPoints # 0
               /\ sess[currentPoints].uTexture = f.tex
               /\ sess[currentPoints].uTextureMix = 0
               /\ sess[currentPoints].uDispersion = UOne - EaseOutQuart(f.p)
               /\ \A p \in (f.p + 1)..Ticks :
                      LET s == assembleFrame(Fired(f), f, p)
                      IN  /\ s.currentIndex = currentIndex
                          /\ s.sess[currentPoints].uTexture = f.tex
                          /\ s.sess[currentPoints].uDispersion <= sess[currentPoints].uDispersion
                          /\ s.isAnimating = (p < Ticks)


\* the texture load l was requested for a session that is no more: destroy()
\* has been called since, or a later open() has been made
Stale(l) == destroyed \/ \E m \in loads : m.kind = "open" /\ m.id > l.id

\* C28: the completion of a stale texture load is ignored: it creates no
\* Points or Mesh, makes nothing visible, changes neither currentIndex nor a
\* texture slot, and schedules no frame.
C28_StaleCompletionIgnored ==
    \A l \in loads :
        Stale(l) =>
            LET s == IF l.kind = "open" THEN openTextureLoaded(Cur, l)
                     ELSE navTextureLoaded(Cur, l)
            IN  /\ s.sess = sess
                /\ s.sceneChildren = sceneChildren
                /\ s.currentPoints = currentPoints /\ s.currentMesh = currentMesh
                /\ s.containerVisible = containerVisible
                /\ s.currentIndex = currentIndex
                /\ s.frames = frames /\ s.renderFrames = renderFrames


\* C29: the render loop runs only while content is visible or animating:
\* with the container hidden and isAnimating false the next render-loop
\* callback draws nothing, sets renderId to null and requests no further
\* frame; and while the container is visible with a session on display a
\* render-loop frame request is outstanding.
C29_RenderLoopLifetime ==
    /\ (~containerVisible /\ ~isAnimating /\ renderFrames > 0) =>
           LET fired == [Cur EXCEPT !.renderFrames = @ - 1]
               s == animate(fired)
           IN  /\ drawCalls(fired) = 0
               /\ ~s.renderId
               /\ s.renderFrames = renderFrames - 1
    /\ (containerVisible /\ currentPoints # 0) => renderFrames >= 1

\* a close tween has finished and the loop's last request is still to run
C29_Witness ==
    /\ ~containerVisible /\ ~isAnimating /\ currentPoints = 0
    /\ renderId /\ renderFrames = 1
    /\ last.op = "close"


\* the crossfade relation at linear progress p/Ticks with crossfade start
\* num/den, on the mesh and the point cloud that are current in s
Crossfaded(s, p, num, den) ==
    LET mesh == s.sess[s.currentMesh]
        points == s.sess[s.currentPoints]
    IN  IF p * den <= num * Ticks
        THEN ~mesh.meshVisible /\ mesh.meshOpacity = 0
        ELSE /\ mesh.meshOpacity * Ticks * (den - num) = OpOne * (p * den - num * Ticks)
             /\ mesh.meshOpacity + points.uOpacity = OpOne

\* the first frame of an open tween, which tweenProgress runs at once at
\* progress 0, and each later frame at every progress it can see next
C30_OpenTween ==
    /\ \A l \in loads :
           l.kind = "open" =>
               LET s == openTextureLoaded(Cur, l)
               IN  (\E f \in s.frames : f.kind = "tween" /\ f.target = 1 /\ f.p = 0) =>
                       Crossfaded(s, 0, CrossfadeNum, CrossfadeDen)
    /\ \A f \in frames :
           (f.kind = "tween" /\ f.target = 1) =>
               \A p \in (f.p + 1)..(Ticks - 1) :
                   LET s == frame(Fired(f), f, p)
                   IN  (s.currentMesh # 0 /\ s.currentPoints # 0) =>
                           Crossfaded(s, p, CrossfadeNum, CrossfadeDen)

\* the frames of the reassembly stage, with the fixed crossfade start 0.5
C30_Reassembly ==
    \A f \in frames :
        f.kind = "assemble" =>
            \A p \in (f.p + 1)..(Ticks - 1) :
                LET s == assembleFrame(Fired(f), f, p)
                IN  (s.currentMesh # 0 /\ s.currentPoints # 0) =>
                        Crossfaded(s, p, 1, 2)

SlidTo(j) == updatePagination([Cur EXCEPT !.currentIndex = j]).paginationStartIndex

\* C31: the pagination window slides minimally: when the index changes to j,
\* the window start is unchanged if j is already inside the window; otherwise
\* it moves just far enough that j is the first slot (moving backward) or the
\* last slot (moving forward) of the window.
C31_MinimalSlide ==
    images > maxVisibleDots =>
        \A j \in 0..(images - 1) :
            LET start == paginationStartIndex
            IN  /\ (start <= j /\ j < start + maxVisibleDots) => SlidTo(j) = start
                /\ j < start => SlidTo(j) = j
                /\ j >= start + maxVisibleDots => SlidTo(j) = j - maxVisibleDots + 1


\* C32: while a session lasts, a resize and a content swap keep every
\* particle's curveOffset, delay and rotation speed and the particle count; a
\* resize rewrites nothing but the start position, and a resize while the
\* container is not visible leaves the geometry as it was.
C32_FlightParametersKept ==
    [][/\ (currentPoints # 0 /\ currentPoints' = currentPoints) =>
              /\ particle'.geometry.aCurveOffset = particle.geometry.aCurveOffset
              /\ particle'.geometry.aDelay = particle.geometry.aDelay
              /\ particle'.geometry.aRotationSpeed = particle.geometry.aRotationSpeed
              /\ particle'.geometry.count = particle.geometry.count
              /\ particle'.geometry.uv = particle.geometry.uv
       /\ (currentPoints # 0 /\ viewer' = viewer) =>
              particle'.geometry.position = particle.geometry.position
       /\ (viewer' = viewer /\ ~containerVisible) =>
              /\ particle'.geometry = particle.geometry
              /\ particle'.imageSize = particle.imageSize
      ]_vars

\* a navigation has swapped in an image of another size and the window has
\* been resized since the vertex, whose random draws were not the least, was
\* generated
C32_Witness ==
    /\ last.op = "next" /\ ~Busy /\ containerVisible /\ currentPoints # 0
    /\ particle.geometry # NoGeometry
    /\ particle.imageSize = <<400, 200>>
    /\ particle.geometry.position = planePosition(particle.geometry.iu, particle.geometry.iv, 400, 200)
    /\ particle.innerSize = <<400, 600>>
    /\ particle.geometry.aStartPosition[1]
           = startXY(particle.geometry.uv, <<0, 300, 100, 100>>, <<400, 600>>,
                     calculateViewDimensions(<<400, 200>>, <<400, 600>>))[1]
    /\ particle.geometry.aRotationSpeed = rotationSpeedOf(RandomSteps - 1)
    /\ particle.geometry.aCurveOffset = curveOffsetOf(RandomSteps - 1, RandomSteps - 1)


\* the draws of Math.random(), out of RandomSteps, whose curveOffsets[i*3]
\* makes the fragment shader pick the shape
DrawsOf(shape) ==
    {r \in 0..(RandomSteps - 1) : targetShape(vRandom([aCurveOffset |-> curveOffsetOf(r, 0)])) = shape}
PercentOf(shape) == (100 * Cardinality(DrawsOf(shape))) \div RandomSteps

\* C33: over the random value the fragment shader receives, vRandom =
\* aCurveOffset.x drawn uniformly from [-2, 2), the target shape is a square
\* for about 40% of the particles, a circle for about 30% and a triangle for
\* about 30% (each within 5 points), and the vertex under observation has
\* one of the three.
C33_ShapeShares ==
    /\ targetShape(vRandom(particle)) \in {"square", "circle", "triangle"}
    /\ PercentOf("square") \in 35..45
    /\ PercentOf("circle") \in 25..35
    /\ PercentOf("triangle") \in 25..35


\* C34: isAnimating never stays stuck: whenever it is true it is eventually
\* false again, given that pending loads end and requested frames run,
\* whatever public calls, destroy() included, come in between.
C34_AnimatingEnds == isAnimating ~> ~isAnimating

\* a navigation is waiting for its texture with isAnimating set
C34_Witness ==
    /\ isAnimating /\ NavLoading /\ frames = {}
    /\ last.op \in {"next", "prev", "dot"}


\* C35: the viewer can always be closed: whenever the container is visible
\* and no animation is in flight and no texture load is pending, a session
\* exists, close() is accepted and, run to its end, removes 'visible'.
C35_AlwaysClosable ==
    (containerVisible /\ ~isAnimating /\ ~Busy) =>
        /\ currentPoints # 0
        /\ close(Cur) # Cur
        /\ ~settle(close(Cur), 6).containerVisible


\* C36: isAnimating reflects the animation in flight: while a frame of a
\* tween, dispersion or reassembly is pending, or a navigation's texture is
\* loading, isAnimating is true, and open(), close(), next() and prev()
\* reject a call.
C36_AnimatingWhileInFlight ==
    InFlight =>
        /\ isAnimating
        /\ \A item \in OpenItems : open(Cur, item) = Cur
        /\ close(Cur) = Cur
        /\ next(Cur) = Cur
        /\ prev(Cur) = Cur


\* C37: currentIndex is always a valid image index: after any sequence of
\* open(item), next(), prev() and dot selections, 0 <= currentIndex <= n - 1
\* and the pagination window start is >= 0, also when open() was given an
\* element that is not one of the registered images.
C37_ValidIndex ==
    /\ 0 <= currentIndex /\ currentIndex <= images - 1
    /\ paginationStartIndex >= 0


\* C38: whenever a session is open and settled (container visible,
\* currentPoints non-null, isAnimating false, no texture load pending), the
\* caption is visible and shows the alt text of images[currentIndex], also
\* after a navigation whose texture load failed.
C38_CaptionShown ==
    (containerVisible /\ currentPoints # 0 /\ ~isAnimating /\ loads = {}) =>
        /\ captionVisible
        /\ captionText = currentIndex


\* the call that led to s, run to its end, has allocated no GPU object, has
\* not made the container visible and has scheduled no frame
Inert(s) ==
    /\ s.renderer = renderer /\ s.scene = scene
    /\ s.tex = tex /\ s.sess = sess /\ s.loads = {}
    /\ s.containerVisible => containerVisible
    /\ s.frames = {} /\ s.renderFrames = renderFrames

\* C39: destroy() is terminal: once it has returned (and nothing requested
\* before it is still pending), a call of open(), close(), next() or prev()
\* allocates no GPU object, does not make the container visible and
\* schedules no frame, whether or not the instance had been opened before.
C39_DestroyIsTerminal ==
    (destroyed /\ ~Busy /\ nextLoad <= MaxLoads) =>
        /\ \A item \in OpenItems : Inert(settle(open(Cur, item), 6))
        /\ Inert(settle(close(Cur), 6))
        /\ Inert(settle(next(Cur), 6))
        /\ Inert(settle(prev(Cur), 6))

=============================================================================
